---------------------------- MODULE Spec2Model ----------------------------
(***************************************************************************)
(* A model of the NES APU core (apu.c / apu.h): five channel state         *)
(* machines, the frame sequencer, the register interface, the sample       *)
(* clock and the mutex that guards the aggregate.                          *)
(*                                                                         *)
(* Fixed-width C integers are kept at their width with % 2^w.  The three   *)
(* double-valued fields are kept in fixed point: phase in 1/PhaseOne,      *)
(* outputFilter in 1/FilterOne, sampleCycleRemainder in 1/RemainderOne of  *)
(* a cycle (RemainderOne is a common multiple of the modelled sample       *)
(* rates, so the remainder arithmetic is exact) together with the number   *)
(* of rounded quotients it has accumulated.                                *)
(***************************************************************************)
EXTENDS Integers, Sequences, FiniteSets, TLC

VARIABLES apu,      \* the APU aggregate (every field but the mutex)
          mutex,    \* apu->mutex: NoThread when free, else the owning thread
          pc,       \* where each thread is inside a public operation
          loc,      \* each thread's locals and arguments of the call in progress
          op,       \* the last completed step: its name, arguments and result
          taken     \* how many steps the callers have taken so far

vars == <<apu, mutex, pc, loc, taken, op>>

(***************************************************************************)
(* Bit helpers for the C operators >>, & with a mask, and single-bit ^.    *)
(***************************************************************************)
Shr(x, n) == x \div (2 ^ n)
Bit(x, n) == (x \div (2 ^ n)) % 2
Low(x, n) == x % (2 ^ n)
Xor1(a, b) == (a + b) % 2
U8(x) == x % 256
U16(x) == x % 65536

(***************************************************************************)
(* Lookup tables (TLA+ sequences are 1-based: entry i is table[i + 1]).    *)
(***************************************************************************)
apu_length_table ==
    << 10, 254, 20, 2, 40, 4, 80, 6,
       160, 8, 60, 10, 14, 12, 26, 14,
       12, 16, 24, 18, 48, 20, 96, 22,
       192, 24, 72, 26, 16, 28, 32, 30 >>

noise_period_table ==
    << 4, 8, 16, 32, 64, 96, 128, 160,
       202, 254, 380, 508, 762, 1016, 2034, 4068 >>

dmc_rate_table ==
    << 428, 380, 340, 320, 286, 254, 226, 214,
       190, 160, 142, 128, 106, 85, 72, 54 >>

triangle_sequence ==
    << 15, 14, 13, 12, 11, 10, 9, 8,
       7, 6, 5, 4, 3, 2, 1, 0,
       0, 1, 2, 3, 4, 5, 6, 7,
       8, 9, 10, 11, 12, 13, 14, 15 >>

apu_cpu_clock == 1789773

PhaseOne == 1000
FilterOne == 1000
RemainderOne == 7056000

(***************************************************************************)
(* The read callback.  NULL is the unbound pointer; the two host callbacks *)
(* modelled are one that returns its context byte whatever the address and *)
(* one that returns the low byte of the address plus its context.          *)
(***************************************************************************)
NULL == "NULL"

ApuReadFunc(read, context, addr) ==
    IF read = "read_const" THEN U8(context)
    ELSE U8(addr + context)

(***************************************************************************)
(* Pulse channel                                                           *)
(***************************************************************************)
PulseChannel ==
    [ control |-> 0, timer |-> 0, lengthCounter |-> 0, enabled |-> FALSE,
      phase |-> 0, envDivider |-> 0, envDecay |-> 0, envStart |-> FALSE,
      sweepDivider |-> 0, sweepPeriod |-> 0, sweepShift |-> 0,
      sweepEnabled |-> FALSE, sweepNegate |-> FALSE, sweepReload |-> FALSE,
      sweepMute |-> FALSE, sweepOnesComplement |-> FALSE ]

pulse_write_control(ch, data) ==
    [ch EXCEPT !.control = data, !.envStart = TRUE]

pulse_write_sweep(ch, data) ==
    [ch EXCEPT !.sweepEnabled = (Bit(data, 7) = 1),
               !.sweepPeriod = Low(Shr(data, 4), 3),
               !.sweepNegate = (Bit(data, 3) = 1),
               !.sweepShift = Low(data, 3),
               !.sweepReload = TRUE]

pulse_write_timer_low(ch, data) ==
    [ch EXCEPT !.timer = U16((Shr(ch.timer, 8) * 256) + data)]

pulse_write_timer_high_lowbits(ch, data) ==
    [ch EXCEPT !.timer = U16(Low(ch.timer, 8) + (Low(data, 3) * 256)),
               !.lengthCounter = apu_length_table[Low(data, 5) + 1],
               !.envStart = TRUE]

pulse_write_timer_high(ch, data) ==
    LET lengthIndex == Low(Shr(data, 3), 5)
    IN  [ch EXCEPT !.timer = U16(Low(ch.timer, 8) + (Low(data, 3) * 256)),
                   !.lengthCounter = apu_length_table[lengthIndex + 1],
                   !.envStart = TRUE]

pulse_set_enabled(ch, enabled) ==
    [ch EXCEPT !.enabled = enabled,
               !.lengthCounter = IF ~enabled THEN 0 ELSE @]

pulse_tick_length_nozerocheck(ch) ==
    LET lengthHalt == Bit(ch.control, 5) = 1
    IN  IF ~lengthHalt
        THEN [ch EXCEPT !.lengthCounter = U8(@ - 1)]
        ELSE ch

pulse_tick_length(ch) ==
    LET lengthHalt == Bit(ch.control, 5) = 1
    IN  IF ~lengthHalt /\ ch.lengthCounter > 0
        THEN [ch EXCEPT !.lengthCounter = U8(@ - 1)]
        ELSE ch

pulse_tick_envelope_alwaysloop(ch) ==
    LET volume == Low(ch.control, 4)
    IN  IF ch.envStart
        THEN [ch EXCEPT !.envStart = FALSE, !.envDecay = 15, !.envDivider = volume]
        ELSE IF ch.envDivider = 0
        THEN [ch EXCEPT !.envDivider = volume,
                        !.envDecay = IF @ > 0 THEN U8(@ - 1) ELSE 15]
        ELSE [ch EXCEPT !.envDivider = U8(@ - 1)]

pulse_tick_envelope(ch) ==
    LET volume == Low(ch.control, 4)
        loop == Bit(ch.control, 5) = 1
    IN  IF ch.envStart
        THEN [ch EXCEPT !.envStart = FALSE, !.envDecay = 15, !.envDivider = volume]
        ELSE IF ch.envDivider = 0
        THEN [ch EXCEPT !.envDivider = volume,
                        !.envDecay = IF @ > 0 THEN U8(@ - 1)
                                     ELSE IF loop THEN 15 ELSE @]
        ELSE [ch EXCEPT !.envDivider = U8(@ - 1)]

pulse_apply_sweep_alwayscommit(ch) ==
    IF ~ch.sweepEnabled \/ ch.sweepShift = 0
    THEN [ch EXCEPT !.sweepMute = FALSE]
    ELSE LET change == U16(Shr(ch.timer, ch.sweepShift))
             target == IF ch.sweepNegate
                       THEN U16(ch.timer - change
                                - (IF ch.sweepOnesComplement THEN 1 ELSE 0))
                       ELSE U16(ch.timer + change)
             mute == (target > 2047) \/ (ch.timer < 8)
         IN  [ch EXCEPT !.sweepMute = mute, !.timer = target]

pulse_apply_sweep_nowrapcheck(ch) ==
    IF ~ch.sweepEnabled \/ ch.sweepShift = 0
    THEN [ch EXCEPT !.sweepMute = FALSE]
    ELSE LET change == U16(Shr(ch.timer, ch.sweepShift))
             target == IF ch.sweepNegate
                       THEN U16(ch.timer - change
                                - (IF ch.sweepOnesComplement THEN 1 ELSE 0))
                       ELSE U16(ch.timer + change)
             mute == (target > 4095) \/ (ch.timer < 8)
         IN  [ch EXCEPT !.sweepMute = mute,
                        !.timer = IF ~mute THEN target ELSE @]

pulse_apply_sweep(ch) ==
    IF ~ch.sweepEnabled \/ ch.sweepShift = 0
    THEN [ch EXCEPT !.sweepMute = FALSE]
    ELSE LET change == U16(Shr(ch.timer, ch.sweepShift))
             target == IF ch.sweepNegate
                       THEN U16(ch.timer - change
                                - (IF ch.sweepOnesComplement THEN 1 ELSE 0))
                       ELSE U16(ch.timer + change)
             mute == (target > 2047) \/ (ch.timer < 8)
         IN  [ch EXCEPT !.sweepMute = mute,
                        !.timer = IF ~mute THEN target ELSE @]

pulse_tick_sweep(ch) ==
    IF ch.sweepReload
    THEN LET c1 == [ch EXCEPT !.sweepReload = FALSE,
                              !.sweepDivider = ch.sweepPeriod]
         IN  IF c1.sweepEnabled THEN pulse_apply_sweep(c1) ELSE c1
    ELSE IF ch.sweepDivider = 0
    THEN LET c1 == [ch EXCEPT !.sweepDivider = ch.sweepPeriod]
         IN  IF c1.sweepEnabled THEN pulse_apply_sweep(c1) ELSE c1
    ELSE [ch EXCEPT !.sweepDivider = U8(@ - 1)]


\* pulse_sample returns the channel (its phase advanced) and the output level.
pulse_sample(ch, sample_rate) ==
    IF ~ch.enabled \/ ch.lengthCounter = 0
    THEN [ch |-> ch, out |-> 0]
    ELSE IF ch.timer < 8 \/ ch.sweepMute
    THEN [ch |-> ch, out |-> 0]
    ELSE LET duty == Low(Shr(ch.control, 6), 2)
             dutyCycle == CASE duty = 0 -> PhaseOne \div 8
                            [] duty = 1 -> PhaseOne \div 4
                            [] duty = 2 -> PhaseOne \div 2
                            [] OTHER -> (3 * PhaseOne) \div 4
             step == (apu_cpu_clock * PhaseOne) \div (16 * (ch.timer + 1) * sample_rate)
             sum == ch.phase + step
             phase == IF sum >= PhaseOne THEN sum % PhaseOne ELSE sum
             constantVolume == Bit(ch.control, 4) = 1
             env == IF constantVolume THEN Low(ch.control, 4) ELSE ch.envDecay
         IN  [ch |-> [ch EXCEPT !.phase = phase],
              out |-> IF phase < dutyCycle THEN env ELSE 0]

(***************************************************************************)
(* Triangle channel                                                        *)
(***************************************************************************)
TriangleChannel ==
    [ control |-> 0, timer |-> 0, timerCounter |-> 0, lengthCounter |-> 0,
      enabled |-> FALSE, linearCounter |-> 0, linearReload |-> 0,
      linearControl |-> FALSE, linearReloadFlag |-> FALSE, sequencePos |-> 0 ]

triangle_write_control(ch, data) ==
    [ch EXCEPT !.linearControl = (Bit(data, 7) = 1),
               !.linearReload = Low(data, 7)]

triangle_write_timer_low(ch, data) ==
    [ch EXCEPT !.timer = U16((Shr(ch.timer, 8) * 256) + data)]

triangle_write_timer_high(ch, data) ==
    LET lengthIndex == Low(Shr(data, 3), 5)
    IN  [ch EXCEPT !.timer = U16(Low(ch.timer, 8) + (Low(data, 3) * 256)),
                   !.lengthCounter = apu_length_table[lengthIndex + 1],
                   !.linearReloadFlag = TRUE]

triangle_set_enabled(ch, enabled) ==
    [ch EXCEPT !.enabled = enabled,
               !.lengthCounter = IF ~enabled THEN 0 ELSE @]

triangle_tick_length(ch) ==
    IF ~ch.linearControl /\ ch.lengthCounter > 0
    THEN [ch EXCEPT !.lengthCounter = U8(@ - 1)]
    ELSE ch

triangle_tick_linear(ch) ==
    LET c1 == IF ch.linearReloadFlag
              THEN [ch EXCEPT !.linearCounter = ch.linearReload]
              ELSE IF ch.linearCounter > 0
              THEN [ch EXCEPT !.linearCounter = U8(@ - 1)]
              ELSE ch
    IN  IF ~c1.linearControl
        THEN [c1 EXCEPT !.linearReloadFlag = FALSE]
        ELSE c1

\* triangle_tick_timer sending the sequence back to its start when a
\* counter is 0.
triangle_tick_timer_resets(ch) ==
    IF ch.timerCounter = 0
    THEN [ch EXCEPT !.timerCounter = ch.timer,
                    !.sequencePos = IF ch.lengthCounter > 0 /\ ch.linearCounter > 0
                                    THEN Low(U8(@ + 1), 5)
                                    ELSE 0]
    ELSE [ch EXCEPT !.timerCounter = U16(@ - 1)]

triangle_tick_timer(ch) ==
    IF ch.timerCounter = 0
    THEN [ch EXCEPT !.timerCounter = ch.timer,
                    !.sequencePos = IF ch.lengthCounter > 0 /\ ch.linearCounter > 0
                                    THEN Low(U8(@ + 1), 5)
                                    ELSE @]
    ELSE [ch EXCEPT !.timerCounter = U16(@ - 1)]

triangle_sample(ch) ==
    IF ~ch.enabled \/ ch.lengthCounter = 0 \/ ch.linearCounter = 0
    THEN 0
    ELSE triangle_sequence[ch.sequencePos + 1]

(***************************************************************************)
(* Noise channel                                                           *)
(***************************************************************************)
NoiseChannel ==
    [ control |-> 0, timer |-> 0, timerCounter |-> 0, lengthCounter |-> 0,
      enabled |-> FALSE, lfsr |-> 0, envDivider |-> 0, envDecay |-> 0,
      envStart |-> FALSE ]

noise_write_control(ch, data) ==
    [ch EXCEPT !.control = data, !.envStart = TRUE]

noise_write_period(ch, data) ==
    LET idx == Low(data, 4)
    IN  [ch EXCEPT !.timer = noise_period_table[idx + 1]]

noise_write_length(ch, data) ==
    LET lengthIndex == Low(Shr(data, 3), 5)
    IN  [ch EXCEPT !.lengthCounter = apu_length_table[lengthIndex + 1],
                   !.envStart = TRUE]

noise_set_enabled(ch, enabled) ==
    [ch EXCEPT !.enabled = enabled,
               !.lengthCounter = IF ~enabled THEN 0 ELSE @]

noise_tick_length(ch) ==
    LET lengthHalt == Bit(ch.control, 5) = 1
    IN  IF ~lengthHalt /\ ch.lengthCounter > 0
        THEN [ch EXCEPT !.lengthCounter = U8(@ - 1)]
        ELSE ch

noise_tick_envelope(ch) ==
    LET volume == Low(ch.control, 4)
        loop == Bit(ch.control, 5) = 1
    IN  IF ch.envStart
        THEN [ch EXCEPT !.envStart = FALSE, !.envDecay = 15, !.envDivider = volume]
        ELSE IF ch.envDivider = 0
        THEN [ch EXCEPT !.envDivider = volume,
                        !.envDecay = IF @ > 0 THEN U8(@ - 1)
                                     ELSE IF loop THEN 15 ELSE @]
        ELSE [ch EXCEPT !.envDivider = U8(@ - 1)]

noise_tick_timer_andfeedback(ch) ==
    IF ch.timerCounter = 0
    THEN LET mode == Bit(ch.control, 7) = 1
             feedback == IF mode
                         THEN Bit(ch.lfsr, 0) * Bit(ch.lfsr, 6)
                         ELSE Bit(ch.lfsr, 0) * Bit(ch.lfsr, 1)
         IN  [ch EXCEPT !.timerCounter = ch.timer,
                        !.lfsr = U16(Shr(ch.lfsr, 1) + (feedback * 16384))]
    ELSE [ch EXCEPT !.timerCounter = U16(@ - 1)]

noise_tick_timer_tap5(ch) ==
    IF ch.timerCounter = 0
    THEN LET mode == Bit(ch.control, 7) = 1
             feedback == IF mode
                         THEN Xor1(Bit(ch.lfsr, 0), Bit(ch.lfsr, 5))
                         ELSE Xor1(Bit(ch.lfsr, 0), Bit(ch.lfsr, 1))
         IN  [ch EXCEPT !.timerCounter = ch.timer,
                        !.lfsr = U16(Shr(ch.lfsr, 1) + (feedback * 16384))]
    ELSE [ch EXCEPT !.timerCounter = U16(@ - 1)]

noise_tick_timer(ch) ==
    IF ch.timerCounter = 0
    THEN LET mode == Bit(ch.control, 7) = 1
             feedback == IF mode
                         THEN Xor1(Bit(ch.lfsr, 0), Bit(ch.lfsr, 6))
                         ELSE Xor1(Bit(ch.lfsr, 0), Bit(ch.lfsr, 1))
         IN  [ch EXCEPT !.timerCounter = ch.timer,
                        !.lfsr = U16(Shr(ch.lfsr, 1) + (feedback * 16384))]
    ELSE [ch EXCEPT !.timerCounter = U16(@ - 1)]

noise_sample(ch) ==
    IF ~ch.enabled \/ ch.lengthCounter = 0
    THEN 0
    ELSE IF Bit(ch.lfsr, 0) = 1
    THEN 0
    ELSE LET constantVolume == Bit(ch.control, 4) = 1
         IN  IF constantVolume THEN Low(ch.control, 4) ELSE ch.envDecay


(***************************************************************************)
(* DMC channel.  dmc_fetch_sample and dmc_tick_timer take the aggregate,   *)
(* as in the source, because the fetch goes through apu->read.             *)
(***************************************************************************)
DMCChannel ==
    [ control |-> 0, directLoad |-> 0, sampleAddress |-> 0, sampleLength |-> 0,
      currentAddress |-> 0, bytesRemaining |-> 0, shiftRegister |-> 0,
      bitCount |-> 0, outputLevel |-> 0, enabled |-> FALSE,
      irqEnabled |-> FALSE, loop |-> FALSE, sampleBufferEmpty |-> FALSE,
      sampleBuffer |-> 0, timer |-> 0, timerCounter |-> 0 ]

dmc_restart(ch) ==
    [ch EXCEPT !.currentAddress = ch.sampleAddress,
               !.bytesRemaining = ch.sampleLength]

dmc_set_enabled_keepbytes(ch, enabled) ==
    LET c1 == [ch EXCEPT !.enabled = enabled]
    IN  IF enabled /\ c1.bytesRemaining = 0
        THEN dmc_restart(c1)
        ELSE c1

dmc_set_enabled(ch, enabled) ==
    LET c1 == [ch EXCEPT !.enabled = enabled]
    IN  IF ~enabled
        THEN [c1 EXCEPT !.bytesRemaining = 0]
        ELSE IF c1.bytesRemaining = 0
        THEN dmc_restart(c1)
        ELSE c1

\* dmc_fetch_sample restarting the sample on exhaustion whatever the loop
\* flag.
dmc_fetch_sample_alwaysrestart(a) ==
    LET ch == a.dmc
    IN  IF ~ch.sampleBufferEmpty \/ ch.bytesRemaining = 0
        THEN a
        ELSE LET byte == IF a.read # NULL
                         THEN ApuReadFunc(a.read, a.readContext, ch.currentAddress)
                         ELSE 0
                 next == U16(ch.currentAddress + 1)
                 c1 == [ch EXCEPT !.sampleBuffer = byte,
                                  !.sampleBufferEmpty = FALSE,
                                  !.currentAddress = IF next = 0 THEN 32768 ELSE next,
                                  !.bytesRemaining = IF @ > 0 THEN U16(@ - 1) ELSE @]
                 c2 == IF c1.bytesRemaining = 0 THEN dmc_restart(c1) ELSE c1
             IN  [a EXCEPT !.dmc = c2]

dmc_fetch_sample(a) ==
    LET ch == a.dmc
    IN  IF ~ch.sampleBufferEmpty \/ ch.bytesRemaining = 0
        THEN a
        ELSE LET byte == IF a.read # NULL
                         THEN ApuReadFunc(a.read, a.readContext, ch.currentAddress)
                         ELSE 0
                 next == U16(ch.currentAddress + 1)
                 c1 == [ch EXCEPT !.sampleBuffer = byte,
                                  !.sampleBufferEmpty = FALSE,
                                  !.currentAddress = IF next = 0 THEN 32768 ELSE next,
                                  !.bytesRemaining = IF @ > 0 THEN U16(@ - 1) ELSE @]
                 c2 == IF c1.bytesRemaining = 0 /\ c1.loop THEN dmc_restart(c1) ELSE c1
             IN  [a EXCEPT !.dmc = c2]

\* One processed bit of the shift register: lines 350-362.
dmc_shift_bit_noclamp(ch) ==
    IF ch.bitCount > 0
    THEN [ch EXCEPT !.outputLevel = IF Bit(ch.shiftRegister, 0) = 1
                                    THEN U8(@ + 2)
                                    ELSE U8(@ - 2),
                    !.shiftRegister = Shr(@, 1),
                    !.bitCount = U8(@ - 1)]
    ELSE ch

dmc_shift_bit(ch) ==
    IF ch.bitCount > 0
    THEN [ch EXCEPT !.outputLevel = IF Bit(ch.shiftRegister, 0) = 1
                                    THEN (IF @ <= 125 THEN U8(@ + 2) ELSE @)
                                    ELSE (IF @ >= 2 THEN U8(@ - 2) ELSE @),
                    !.shiftRegister = Shr(@, 1),
                    !.bitCount = U8(@ - 1)]
    ELSE ch

dmc_tick_timer(a) ==
    LET ch == a.dmc
    IN  IF ch.timerCounter = 0
        THEN LET c1 == [ch EXCEPT !.timerCounter = ch.timer]
             IN  IF c1.bitCount = 0
                 THEN IF ~c1.sampleBufferEmpty
                      THEN [a EXCEPT !.dmc =
                               dmc_shift_bit([c1 EXCEPT !.shiftRegister = c1.sampleBuffer,
                                                        !.sampleBufferEmpty = TRUE,
                                                        !.bitCount = 8])]
                      ELSE [a EXCEPT !.dmc = c1]
                 ELSE [a EXCEPT !.dmc = dmc_shift_bit(c1)]
        ELSE [a EXCEPT !.dmc.timerCounter = U16(@ - 1)]

dmc_sample(ch) == ch.outputLevel

(***************************************************************************)
(* The aggregate: memset's all-zero image, apu_init, apu_reset and         *)
(* apu_set_read_callback.  The mutex is the variable mutex.                *)
(***************************************************************************)
NoThread == "none"

\* The double 0.0 of sampleCycleRemainder.
RemainderZero == [exact |-> 0, err |-> 0]

ZeroAPU ==
    [ pulse1 |-> PulseChannel, pulse2 |-> PulseChannel,
      triangle |-> TriangleChannel, noise |-> NoiseChannel, dmc |-> DMCChannel,
      frameCounterCycle |-> 0, frameCounterMode |-> FALSE,
      frameIrqInhibit |-> FALSE, outputFilter |-> 0,
      sampleCycleRemainder |-> RemainderZero, read |-> NULL, readContext |-> 0 ]

apu_init ==
    [ZeroAPU EXCEPT !.pulse1.sweepOnesComplement = TRUE,
                    !.noise.lfsr = 1,
                    !.dmc.sampleBufferEmpty = TRUE,
                    !.outputFilter = 0,
                    !.sampleCycleRemainder = RemainderZero]

apu_reset_dropcallback(a) ==
    LET read == a.read
        context == a.readContext
        zeroed == ZeroAPU
    IN  [zeroed EXCEPT !.pulse1.sweepOnesComplement = TRUE,
                       !.noise.lfsr = 1,
                       !.dmc.sampleBufferEmpty = TRUE,
                       !.outputFilter = 0,
                       !.sampleCycleRemainder = RemainderZero]

\* Lines 388-394: the saved binding and the defaults, stored into the
\* cleared aggregate.
apu_reset_restore(a, read, context) ==
    [a EXCEPT !.read = read,
              !.readContext = context,
              !.pulse1.sweepOnesComplement = TRUE,
              !.noise.lfsr = 1,
              !.dmc.sampleBufferEmpty = TRUE,
              !.outputFilter = 0,
              !.sampleCycleRemainder = RemainderZero]

apu_reset(a) ==
    LET read == a.read
        context == a.readContext
        zeroed == ZeroAPU
    IN  apu_reset_restore(zeroed, read, context)

apu_set_read_callback(a, read, context) ==
    [a EXCEPT !.read = read, !.readContext = context]


(***************************************************************************)
(* Register interface                                                      *)
(***************************************************************************)
\* case 0x4017 of apu_cpu_write, lines 442-458.
write_frame_counter_nosweep(a, data) ==
    LET a1 == [a EXCEPT !.frameCounterMode = (Bit(data, 7) = 1),
                        !.frameIrqInhibit = (Bit(data, 6) = 1),
                        !.frameCounterCycle = 0]
    IN  IF a1.frameCounterMode
        THEN [a1 EXCEPT !.pulse1 = pulse_tick_envelope(pulse_tick_length(@)),
                        !.pulse2 = pulse_tick_envelope(pulse_tick_length(@)),
                        !.triangle = triangle_tick_linear(triangle_tick_length(@)),
                        !.noise = noise_tick_envelope(noise_tick_length(@))]
        ELSE a1

write_frame_counter(a, data) ==
    LET a1 == [a EXCEPT !.frameCounterMode = (Bit(data, 7) = 1),
                        !.frameIrqInhibit = (Bit(data, 6) = 1),
                        !.frameCounterCycle = 0]
    IN  IF a1.frameCounterMode
        THEN LET l1 == [a1 EXCEPT !.pulse1 = pulse_tick_length(@)]
                 l2 == [l1 EXCEPT !.pulse2 = pulse_tick_length(@)]
                 l3 == [l2 EXCEPT !.triangle = triangle_tick_length(@)]
                 l4 == [l3 EXCEPT !.noise = noise_tick_length(@)]
                 s1 == [l4 EXCEPT !.pulse1 = pulse_tick_sweep(@)]
                 s2 == [s1 EXCEPT !.pulse2 = pulse_tick_sweep(@)]
                 e1 == [s2 EXCEPT !.pulse1 = pulse_tick_envelope(@)]
                 e2 == [e1 EXCEPT !.pulse2 = pulse_tick_envelope(@)]
                 e3 == [e2 EXCEPT !.noise = noise_tick_envelope(@)]
             IN  [e3 EXCEPT !.triangle = triangle_tick_linear(@)]
        ELSE a1

apu_cpu_write(a, addr, data) ==
    CASE addr = 16384 -> [a EXCEPT !.pulse1 = pulse_write_control(@, data)]
      [] addr = 16385 -> [a EXCEPT !.pulse1 = pulse_write_sweep(@, data)]
      [] addr = 16386 -> [a EXCEPT !.pulse1 = pulse_write_timer_low(@, data)]
      [] addr = 16387 -> [a EXCEPT !.pulse1 = pulse_write_timer_high(@, data)]
      [] addr = 16388 -> [a EXCEPT !.pulse2 = pulse_write_control(@, data)]
      [] addr = 16389 -> [a EXCEPT !.pulse2 = pulse_write_sweep(@, data)]
      [] addr = 16390 -> [a EXCEPT !.pulse2 = pulse_write_timer_low(@, data)]
      [] addr = 16391 -> [a EXCEPT !.pulse2 = pulse_write_timer_high(@, data)]
      [] addr = 16392 -> [a EXCEPT !.triangle = triangle_write_control(@, data)]
      [] addr = 16394 -> [a EXCEPT !.triangle = triangle_write_timer_low(@, data)]
      [] addr = 16395 -> [a EXCEPT !.triangle = triangle_write_timer_high(@, data)]
      [] addr = 16396 -> [a EXCEPT !.noise = noise_write_control(@, data)]
      [] addr = 16398 ->
           LET n1 == noise_write_period(a.noise, data)
           IN  [a EXCEPT !.noise =
                   [n1 EXCEPT !.control = U8(Low(n1.control, 7) + (Bit(data, 7) * 128))]]
      [] addr = 16399 -> [a EXCEPT !.noise = noise_write_length(@, data)]
      [] addr = 16400 ->
           [a EXCEPT !.dmc.control = data,
                     !.dmc.irqEnabled = (Bit(data, 7) = 1),
                     !.dmc.loop = (Bit(data, 6) = 1),
                     !.dmc.timer = dmc_rate_table[Low(data, 4) + 1]]
      [] addr = 16401 ->
           [a EXCEPT !.dmc.directLoad = Low(data, 7),
                     !.dmc.outputLevel = Low(data, 7)]
      [] addr = 16402 ->
           [a EXCEPT !.dmc.sampleAddress = U16(49152 + U16(data * 64))]
      [] addr = 16403 ->
           [a EXCEPT !.dmc.sampleLength = U16(U16(data) * 16 + 1)]
      [] addr = 16405 ->
           [a EXCEPT !.pulse1 = pulse_set_enabled(@, Bit(data, 0) = 1),
                     !.pulse2 = pulse_set_enabled(@, Bit(data, 1) = 1),
                     !.triangle = triangle_set_enabled(@, Bit(data, 2) = 1),
                     !.noise = noise_set_enabled(@, Bit(data, 3) = 1),
                     !.dmc = dmc_set_enabled(@, Bit(data, 4) = 1)]
      [] addr = 16407 -> write_frame_counter(a, data)
      [] OTHER -> a

apu_read_status_dmcenabled(a) ==
    (IF a.pulse1.enabled /\ a.pulse1.lengthCounter > 0 THEN 1 ELSE 0)
    + (IF a.pulse2.enabled /\ a.pulse2.lengthCounter > 0 THEN 2 ELSE 0)
    + (IF a.triangle.enabled /\ a.triangle.lengthCounter > 0 THEN 4 ELSE 0)
    + (IF a.noise.enabled /\ a.noise.lengthCounter > 0 THEN 8 ELSE 0)
    + (IF a.dmc.enabled THEN 16 ELSE 0)

apu_read_status(a) ==
    (IF a.pulse1.enabled /\ a.pulse1.lengthCounter > 0 THEN 1 ELSE 0)
    + (IF a.pulse2.enabled /\ a.pulse2.lengthCounter > 0 THEN 2 ELSE 0)
    + (IF a.triangle.enabled /\ a.triangle.lengthCounter > 0 THEN 4 ELSE 0)
    + (IF a.noise.enabled /\ a.noise.lengthCounter > 0 THEN 8 ELSE 0)
    + (IF a.dmc.bytesRemaining > 0 THEN 16 ELSE 0)

(***************************************************************************)
(* Frame sequencer and cycle stepping                                      *)
(***************************************************************************)
apu_quarter_frame(a) ==
    LET e1 == [a EXCEPT !.pulse1 = pulse_tick_envelope(@)]
        e2 == [e1 EXCEPT !.pulse2 = pulse_tick_envelope(@)]
        e3 == [e2 EXCEPT !.noise = noise_tick_envelope(@)]
    IN  [e3 EXCEPT !.triangle = triangle_tick_linear(@)]

apu_half_frame(a) ==
    LET l1 == [a EXCEPT !.pulse1 = pulse_tick_length(@)]
        l2 == [l1 EXCEPT !.pulse2 = pulse_tick_length(@)]
        l3 == [l2 EXCEPT !.triangle = triangle_tick_length(@)]
        l4 == [l3 EXCEPT !.noise = noise_tick_length(@)]
        s1 == [l4 EXCEPT !.pulse1 = pulse_tick_sweep(@)]
    IN  [s1 EXCEPT !.pulse2 = pulse_tick_sweep(@)]

\* The if/else chain of lines 506-533: what the sequencer does when the
\* incremented counter is cycle, as a set of "quarter", "half", "reset".
frame_events_halfeverystep(mode, cycle) ==
    IF ~mode
    THEN CASE cycle = 3729 -> {"quarter", "half"}
           [] cycle = 7457 -> {"quarter", "half"}
           [] cycle = 11186 -> {"quarter", "half"}
           [] cycle = 14915 -> {"quarter", "half", "reset"}
           [] OTHER -> {}
    ELSE CASE cycle = 3729 -> {"quarter", "half"}
           [] cycle = 7457 -> {"quarter", "half"}
           [] cycle = 11186 -> {"quarter", "half"}
           [] cycle = 14915 -> {"quarter", "half"}
           [] cycle = 18641 -> {"reset"}
           [] OTHER -> {}

frame_events(mode, cycle) ==
    IF ~mode
    THEN CASE cycle = 3729 -> {"quarter"}
           [] cycle = 7457 -> {"quarter", "half"}
           [] cycle = 11186 -> {"quarter"}
           [] cycle = 14915 -> {"quarter", "half", "reset"}
           [] OTHER -> {}
    ELSE CASE cycle = 3729 -> {"quarter"}
           [] cycle = 7457 -> {"quarter", "half"}
           [] cycle = 11186 -> {"quarter"}
           [] cycle = 14915 -> {"quarter", "half"}
           [] cycle = 18641 -> {"reset"}
           [] OTHER -> {}

\* One iteration of the loop of apu_step_cycles_unlocked up to the call of
\* dmc_fetch_sample, lines 505-536.
apu_step_cycle_ticks(a) ==
    LET a1 == [a EXCEPT !.frameCounterCycle = @ + 1]
        ev == frame_events(a1.frameCounterMode, a1.frameCounterCycle)
        a2 == IF "quarter" \in ev THEN apu_quarter_frame(a1) ELSE a1
        a3 == IF "half" \in ev THEN apu_half_frame(a2) ELSE a2
        a4 == IF "reset" \in ev THEN [a3 EXCEPT !.frameCounterCycle = 0] ELSE a3
        a5 == [a4 EXCEPT !.triangle = triangle_tick_timer(@)]
        a6 == [a5 EXCEPT !.noise = noise_tick_timer(@)]
    IN  dmc_tick_timer(a6)

\* One iteration of the loop of apu_step_cycles_unlocked, lines 505-538.
apu_step_cycle(a) == dmc_fetch_sample(apu_step_cycle_ticks(a))

\* The loop runs the body cycles times: the first half of the iterations,
\* then the rest.  The state in between is drawn from a singleton set so
\* that it is a value before the second half starts.
RECURSIVE apu_step_cycles_unlocked(_, _)
apu_step_cycles_unlocked(a, cycles) ==
    IF cycles <= 0
    THEN a
    ELSE IF cycles = 1
    THEN apu_step_cycle(a)
    ELSE CHOOSE r \in { apu_step_cycles_unlocked(x, cycles - (cycles \div 2)) :
                           x \in {apu_step_cycles_unlocked(a, cycles \div 2)} } : TRUE

\* The frame counter after one cycle and after n cycles (lines 505-533).
frame_cycle_next(mode, cycle) ==
    IF "reset" \in frame_events(mode, cycle + 1) THEN 0 ELSE cycle + 1

RECURSIVE frame_cycle_after(_, _, _)
frame_cycle_after(mode, cycle, n) ==
    IF n <= 0
    THEN cycle
    ELSE IF n = 1
    THEN frame_cycle_next(mode, cycle)
    ELSE CHOOSE r \in { frame_cycle_after(mode, c, n - (n \div 2)) :
                           c \in {frame_cycle_after(mode, cycle, n \div 2)} } : TRUE

\* What the sequencer fired on each cycle of a call, first cycle first:
\* the first half of the cycles, then the rest.
RECURSIVE step_events_from(_, _, _)
step_events_from(mode, cycle, n) ==
    IF n <= 0
    THEN << >>
    ELSE IF n = 1
    THEN << frame_events(mode, cycle + 1) >>
    ELSE CHOOSE r \in { step_events_from(mode, cycle, n \div 2)
                           \o step_events_from(mode, c, n - (n \div 2)) :
                           c \in {frame_cycle_after(mode, cycle, n \div 2)} } : TRUE

step_events(a, cycles) ==
    step_events_from(a.frameCounterMode, a.frameCounterCycle, cycles)

apu_step(a, cycles) == apu_step_cycles_unlocked(a, cycles)


(***************************************************************************)
(* Mixer and sample clock.  Channel levels are integers; the mixed value   *)
(* and the filter are in 1/FilterOne; tnd is in millionths.                *)
(***************************************************************************)
apu_next_sample_unlocked(a, sample_rate) ==
    LET r1 == pulse_sample(a.pulse1, sample_rate)
        r2 == pulse_sample(a.pulse2, sample_rate)
        t == triangle_sample(a.triangle)
        n == noise_sample(a.noise)
        d == dmc_sample(a.dmc)
        p == r1.out + r2.out
        pulseOut == IF p > 0
                    THEN (9588 * p * (FilterOne \div 100)) \div (8128 + (100 * p))
                    ELSE 0
        tnd == ((t * 1000000) \div 8227) + ((n * 1000000) \div 12241)
               + ((d * 1000000) \div 22638)
        tndOut == IF tnd > 0
                  THEN (15979 * (FilterOne \div 100) * tnd) \div (1000000 + (100 * tnd))
                  ELSE 0
        mixed == pulseOut + tndOut
        \* alpha = dt / (rc + dt) = 2*pi*cutoff / (2*pi*cutoff + sample_rate)
        alpha == (75398 * FilterOne) \div (75398 + sample_rate)
        filter == a.outputFilter + ((alpha * (mixed - a.outputFilter)) \div FilterOne)
    IN  [apu |-> [a EXCEPT !.pulse1 = r1.ch, !.pulse2 = r2.ch, !.outputFilter = filter],
         out |-> filter]

apu_next_sample(a, sample_rate) == apu_next_sample_unlocked(a, sample_rate)

\* cyclesPerSample = apu_cpu_clock / sample_rate.  The double holds the
\* quotient rounded to 53 bits: cycles_per_sample is the exact quotient in
\* 1/RemainderOne of a cycle and quotient_rounding the sign of (double -
\* exact) under IEEE-754 round-to-nearest.
cycles_per_sample(sample_rate) == apu_cpu_clock * (RemainderOne \div sample_rate)

quotient_rounding(sample_rate) ==
    CASE sample_rate = 44100 -> 1
      [] sample_rate = 48000 -> 1
      [] sample_rate = 22050 -> 1
      [] sample_rate = 32000 -> -1
      [] sample_rate = 16000 -> -1
      [] sample_rate = 8000 -> -1

\* sampleCycleRemainder += cyclesPerSample (line 588).  The sum of a
\* remainder below 1 and the quotient fits in 53 bits, so the addition
\* is exact and only the rounding of the quotient accumulates.
remainder_add(r, sample_rate) ==
    [exact |-> r.exact + cycles_per_sample(sample_rate),
     err |-> r.err + quotient_rounding(sample_rate)]

\* (int)sampleCycleRemainder (line 589): the accumulated rounding is far
\* smaller than 1/RemainderOne, so it decides the integer part only when the
\* exact value is a whole number and the double lies just below it.
remainder_int(r) ==
    IF r.exact > 0 /\ r.exact % RemainderOne = 0 /\ r.err < 0
    THEN (r.exact \div RemainderOne) - 1
    ELSE r.exact \div RemainderOne

\* One iteration of the loop of apu_fill_buffer, lines 588-594.
apu_fill_sample(a, sample_rate) ==
    LET a1 == [a EXCEPT !.sampleCycleRemainder = remainder_add(@, sample_rate)]
        cycles == remainder_int(a1.sampleCycleRemainder)
        a2 == IF cycles > 0
              THEN [apu_step_cycles_unlocked(a1, cycles)
                       EXCEPT !.sampleCycleRemainder.exact = @ - (cycles * RemainderOne)]
              ELSE a1
    IN  apu_next_sample_unlocked(a2, sample_rate)

RECURSIVE fill_loop(_, _, _, _, _)
fill_loop(a, sample_rate, out, i, count) ==
    IF i >= count
    THEN [apu |-> a, out |-> out]
    ELSE CHOOSE f \in { fill_loop(r.apu, sample_rate, Append(out, r.out), i + 1, count) :
                           r \in {apu_fill_sample(a, sample_rate)} } : TRUE

\* out is the caller's buffer as the sequence of samples written into it;
\* outIsNull says the caller passed a null pointer.
apu_fill_buffer_nonullcheck(a, sample_rate, outIsNull, count) ==
    IF count <= 0
    THEN [apu |-> a, out |-> << >>]
    ELSE fill_loop(a, sample_rate, << >>, 0, count)

apu_fill_buffer(a, sample_rate, outIsNull, count) ==
    IF outIsNull \/ count <= 0
    THEN [apu |-> a, out |-> << >>]
    ELSE fill_loop(a, sample_rate, << >>, 0, count)

(***************************************************************************)
(* Threads.  A sequential caller runs each public operation as one step    *)
(* (lock, body, unlock); the two-thread specifications further down split  *)
(* the same operations at the lock and unlock calls.                       *)
(***************************************************************************)
Threads == {"cpu", "audio"}

NoLocals == [rate |-> 0, count |-> 0, i |-> 0, cycles |-> 0, addr |-> 0,
             data |-> 0, read |-> NULL, context |-> 0, ret |-> 0, out |-> << >>]

Quiet == mutex = NoThread /\ \A t \in Threads : pc[t] = "idle"

\* The callers stop after max steps.
Budget(max) == taken < max /\ taken' = taken + 1

Done(name, args, ret) == op' = [name |-> name, args |-> args, ret |-> ret]

Init ==
    /\ apu = apu_init
    /\ mutex = NoThread
    /\ pc = [t \in Threads |-> "idle"]
    /\ loc = [t \in Threads |-> NoLocals]
    /\ op = [name |-> "init", args |-> << >>, ret |-> 0]
    /\ taken = 0

Write_mirrored(addr, data) ==
    /\ Quiet
    /\ apu' = apu_cpu_write(apu, IF addr = 16397 THEN 16396 ELSE addr, data)
    /\ Done("write", <<addr, data>>, 0)
    /\ UNCHANGED <<mutex, pc, loc>>

Write(addr, data) ==
    /\ Quiet
    /\ apu' = apu_cpu_write(apu, addr, data)
    /\ Done("write", <<addr, data>>, 0)
    /\ UNCHANGED <<mutex, pc, loc>>

Step(cycles) ==
    /\ Quiet
    /\ apu' = apu_step(apu, cycles)
    /\ Done("step", <<cycles>>, step_events(apu, cycles))
    /\ UNCHANGED <<mutex, pc, loc>>

ReadStatus ==
    /\ Quiet
    /\ Done("read_status", << >>, apu_read_status(apu))
    /\ UNCHANGED <<apu, mutex, pc, loc>>

NextSample(sample_rate) ==
    /\ Quiet
    /\ LET r == apu_next_sample(apu, sample_rate)
       IN  /\ apu' = r.apu
           /\ Done("next_sample", <<sample_rate>>, r.out)
    /\ UNCHANGED <<mutex, pc, loc>>

FillBuffer(sample_rate, outIsNull, count) ==
    /\ Quiet
    /\ LET r == apu_fill_buffer(apu, sample_rate, outIsNull, count)
       IN  /\ apu' = r.apu
           /\ Done("fill_buffer", <<sample_rate, outIsNull, count>>, r.out)
    /\ UNCHANGED <<mutex, pc, loc>>

Reset ==
    /\ Quiet
    /\ apu' = apu_reset(apu)
    /\ Done("reset", << >>, 0)
    /\ UNCHANGED <<mutex, pc, loc>>

SetReadCallback(read, context) ==
    /\ Quiet
    /\ apu' = apu_set_read_callback(apu, read, context)
    /\ Done("set_read_callback", <<read, context>>, 0)
    /\ UNCHANGED <<mutex, pc, loc>>


(***************************************************************************)
(* SpecFrame: the frame sequencer under single-cycle steps.  The caller    *)
(* may first select the mode and start pulse 1, then steps cycle by cycle  *)
(* through more than one full 5-step frame.                                *)
(***************************************************************************)
MaxFrameSetup == 2
MaxFrameSteps == 18700

FrameSetupWrites == { <<16407, 128>>, <<16405, 1>>, <<16387, 8>> }

FrameSetup ==
    /\ taken < MaxFrameSetup
    /\ \E w \in FrameSetupWrites : Write(w[1], w[2])
    /\ taken' = taken + 1

FrameStep ==
    /\ Budget(MaxFrameSteps)
    /\ Step(1)

FrameNext == FrameSetup \/ FrameStep

SpecFrame == Init /\ [][FrameNext]_vars

QuarterCycles == {3729, 7457, 11186, 14915}
HalfCycles == {7457, 14915}

\* C1: a one-cycle step that takes the frame counter to c fires a quarter-frame
\* event exactly when c is 3729, 7457, 11186 or 14915 and a half-frame event
\* exactly when c is 7457 or 14915, in both modes; the counter then reads 0
\* exactly when c is 14915 in 4-step mode or 18641 in 5-step mode, and c
\* otherwise; pulse 1's length counter moves (by one) only on a half-frame event.
C1_FrameSchedule ==
    [][ (op'.name = "step" /\ op'.args = <<1>>) =>
          LET c == apu.frameCounterCycle + 1
              ev == op'.ret[1]
              wrap == IF apu.frameCounterMode THEN 18641 ELSE 14915
              len == apu.pulse1.lengthCounter
          IN  /\ ("quarter" \in ev) <=> (c \in QuarterCycles)
              /\ ("half" \in ev) <=> (c \in HalfCycles)
              /\ apu'.frameCounterCycle = (IF c = wrap THEN 0 ELSE c)
              /\ apu'.frameCounterMode = apu.frameCounterMode
              /\ apu'.pulse1.lengthCounter =
                   (IF c \in HalfCycles /\ len > 0 THEN len - 1 ELSE len)
      ]_vars

\* C1 witness: in 5-step mode the step to 18641 has wrapped the counter to 0
\* without an event, after both half-frame events of the frame clocked pulse 1.
C1_Witness ==
    /\ op.name = "step"
    /\ op.ret = << {"reset"} >>
    /\ apu.frameCounterMode
    /\ apu.frameCounterCycle = 0
    /\ apu.pulse1.lengthCounter = 251


(***************************************************************************)
(* SpecClock: register writes that set up envelopes, sweeps, length and    *)
(* linear counters, interleaved with writes to 0x4017.                     *)
(***************************************************************************)
MaxClockOps == 4

ClockWrites ==
    { <<16384, 2>>, <<16384, 32>>, <<16385, 137>>, <<16385, 145>>,
      <<16386, 16>>, <<16387, 24>>, <<16388, 33>>, <<16389, 129>>,
      <<16390, 200>>, <<16392, 2>>, <<16392, 129>>, <<16395, 24>>,
      <<16396, 1>>, <<16399, 24>>, <<16405, 15>> }

FrameCounterBytes == {0, 64, 128, 192}

ClockSetup ==
    /\ Budget(MaxClockOps)
    /\ \E w \in ClockWrites : Write(w[1], w[2])

ClockWriteFrameCounter ==
    /\ Budget(MaxClockOps)
    /\ \E d \in FrameCounterBytes : Write(16407, d)

ClockNext == ClockSetup \/ ClockWriteFrameCounter

SpecClock == Init /\ [][ClockNext]_vars

MaxLengthOps == 2

LengthRegisters == {16387, 16391, 16395, 16399}

\* One byte for each of the 32 indices; the low three bits vary with it.
LengthBytes == { (8 * i) + (i % 8) : i \in 0..31 }

LengthSetupWrites == { <<16405, 0>>, <<16405, 15>>, <<16407, 128>>, <<16384, 32>> }

LengthSetup ==
    /\ Budget(MaxLengthOps)
    /\ \E w \in LengthSetupWrites : Write(w[1], w[2])

LengthWrite ==
    /\ Budget(MaxLengthOps)
    /\ \E a \in LengthRegisters : \E b \in LengthBytes : Write(a, b)

LengthNext == LengthSetup \/ LengthWrite

SpecLength == Init /\ [][LengthNext]_vars

LengthCounterOf(a, addr) ==
    CASE addr = 16387 -> a.pulse1.lengthCounter
      [] addr = 16391 -> a.pulse2.lengthCounter
      [] addr = 16395 -> a.triangle.lengthCounter
      [] addr = 16399 -> a.noise.lengthCounter

\* C3: after a write of b to 0x4003, 0x4007, 0x400B or 0x400F the length
\* counter of pulse 1, pulse 2, triangle or noise is apu_length_table[b >> 3],
\* whatever the state before; 0x00 written to 0x4003 gives 10.
C3_LengthLoad ==
    [][ (op'.name = "write" /\ op'.args[1] \in LengthRegisters) =>
          LET addr == op'.args[1]
              b == op'.args[2]
          IN  /\ LengthCounterOf(apu', addr) = apu_length_table[(b \div 8) + 1]
              /\ (addr = 16387 /\ b = 0) => apu'.pulse1.lengthCounter = 10
      ]_vars

\* C3 witness: index 31 (byte 0xFF) written to the noise length register of
\* a disabled channel has loaded 30.
C3_Witness ==
    /\ op.name = "write"
    /\ op.args = <<16399, 255>>
    /\ ~apu.noise.enabled
    /\ apu.noise.lengthCounter = 30


(***************************************************************************)
(* SpecSweep: the sweep recomputation over every 11-bit timer and every    *)
(* shift.  The initial states are the states the register writes below     *)
(* lead to from power-on (both pulse units programmed alike, sweep enabled *)
(* with divider period 0); every step is then a half-frame clock.          *)
(***************************************************************************)
MaxSweepClocks == 2

SweepSetup(T, S, negate) ==
    LET sweep == 128 + (IF negate THEN 8 ELSE 0) + S
        w1 == apu_cpu_write(apu_init, 16386, T % 256)
        w2 == apu_cpu_write(w1, 16387, T \div 256)
        w3 == apu_cpu_write(w2, 16385, sweep)
        w4 == apu_cpu_write(w3, 16390, T % 256)
        w5 == apu_cpu_write(w4, 16391, T \div 256)
    IN  apu_cpu_write(w5, 16389, sweep)

SweepInit ==
    /\ \E T \in 0..2047 : \E S \in 0..7 : \E negate \in BOOLEAN :
          /\ apu = SweepSetup(T, S, negate)
          /\ op = [name |-> "write", args |-> <<16389, 128 + (IF negate THEN 8 ELSE 0) + S>>,
                   ret |-> 0]
    /\ mutex = NoThread
    /\ pc = [t \in Threads |-> "idle"]
    /\ loc = [t \in Threads |-> NoLocals]
    /\ taken = 0

SweepClock ==
    /\ Budget(MaxSweepClocks)
    /\ Write(16407, 128)

SweepNext == SweepClock

SpecSweep == SweepInit /\ [][SweepNext]_vars

\* A half-frame clock recomputes the sweep of channel ch when the reload flag
\* is set or the divider is 0, and the sweep is enabled (pulse_tick_sweep).
Recomputes(ch) == (ch.sweepReload \/ ch.sweepDivider = 0) /\ ch.sweepEnabled

HalfFrameClock == op'.name = "write" /\ op'.args = <<16407, 128>>

\* The target period as the claims state it, over the integers.
SweepTarget(ch) ==
    IF ch.sweepNegate
    THEN ch.timer - (ch.timer \div (2 ^ ch.sweepShift))
         - (IF ch.sweepOnesComplement THEN 1 ELSE 0)
    ELSE ch.timer + (ch.timer \div (2 ^ ch.sweepShift))

SweepAdds(before, after, shifts) ==
    (Recomputes(before) /\ ~before.sweepNegate /\ before.sweepShift \in shifts) =>
       LET T == before.timer
           target == T + (T \div (2 ^ before.sweepShift))
       IN  /\ after.sweepMute <=> (target > 2047 \/ T < 8)
           /\ after.timer = (IF after.sweepMute THEN T ELSE target)

MutesOutside(before, after) ==
    (Recomputes(before) /\ before.sweepShift # 0
       /\ (SweepTarget(before) < 8 \/ SweepTarget(before) > 2047)) =>
       (after.sweepMute /\ after.timer = before.timer)

\* C7 as stated: a recomputed target outside [8, 0x7FF] sets the mute flag and
\* leaves the timer unchanged, so no committed timer is below 8 or above 0x7FF.
C7_Original ==
    [][ HalfFrameClock =>
          /\ MutesOutside(apu.pulse1, apu'.pulse1)
          /\ MutesOutside(apu.pulse2, apu'.pulse2) ]_vars

MutesAbove(before, after) ==
    (Recomputes(before) /\ before.sweepShift # 0) =>
       /\ (SweepTarget(before) > 2047 \/ SweepTarget(before) < 0 \/ before.timer < 8) =>
             (after.sweepMute /\ after.timer = before.timer)
       /\ after.timer <= 2047
       /\ (after.timer # before.timer) => (after.timer = SweepTarget(before))

\* C7 amended: for both units and both negate settings, a recomputation (shift
\* nonzero) whose target is above 0x7FF, or whose current timer is below 8,
\* sets the mute flag and leaves the timer unchanged; the sweep never commits
\* a timer above 0x7FF, but it does commit targets below 8.
C7_MutesAbove ==
    [][ HalfFrameClock =>
          /\ MutesAbove(apu.pulse1, apu'.pulse1)
          /\ MutesAbove(apu.pulse2, apu'.pulse2) ]_vars

\* C7 witness: negating sweeps with shift 1 at timer 8 have committed the
\* targets 3 (pulse 1, one's complement) and 4 (pulse 2), both below 8.
C7_Witness ==
    /\ op.name = "write" /\ op.args = <<16407, 128>>
    /\ taken = 1
    /\ apu.pulse1.sweepNegate /\ apu.pulse1.sweepShift = 1
    /\ ~apu.pulse1.sweepMute /\ apu.pulse1.timer = 3
    /\ ~apu.pulse2.sweepMute /\ apu.pulse2.timer = 4


(***************************************************************************)
(* SpecNoise: the noise channel under single-cycle steps, mode switches    *)
(* through both registers that carry the mode bit, period writes and       *)
(* resets.                                                                 *)
(***************************************************************************)
MaxNoiseOps == 40

NoiseWrites == { <<16396, 128>>, <<16396, 0>>, <<16398, 128>>, <<16398, 0>> }

NoiseWrite ==
    /\ Budget(MaxNoiseOps)
    /\ \E w \in NoiseWrites : Write(w[1], w[2])

NoiseStep ==
    /\ Budget(MaxNoiseOps)
    /\ Step(1)

NoiseReset ==
    /\ Budget(MaxNoiseOps)
    /\ Reset

NoiseNext == NoiseWrite \/ NoiseStep \/ NoiseReset

SpecNoise == Init /\ [][NoiseNext]_vars

\* C8: in every state reached from apu_init or apu_reset by register writes
\* (mode-bit changes included) and cycle steps, the noise LFSR is nonzero and
\* fits in 15 bits.
C8_LfsrNonzero == apu.noise.lfsr \in 1..32767

\* C8 witness: the LFSR has been stepped from the seed 1 down to 2 in long
\* mode, switched to short mode, and stepped back to 1.
C8_Witness ==
    /\ op.name = "step"
    /\ taken >= 16
    /\ Bit(apu.noise.control, 7) = 1
    /\ apu.noise.lfsr = 1


(***************************************************************************)
(* SpecDmc: the DMC channel.  The host binds callbacks that return 0x00,   *)
(* 0xFF or 0x55, programs a sample, loads the output level directly and    *)
(* steps cycle by cycle; rebinding between fetches gives any byte sequence *)
(* over those values.                                                      *)
(***************************************************************************)
MaxDmcOps == 11

DmcWrites ==
    { <<16403, 0>>, <<16400, 64>>, <<16405, 16>>, <<16405, 0>>,
      <<16401, 1>>, <<16401, 125>>, <<16401, 255>> }

DmcContexts == {0, 255, 85}

DmcWrite ==
    /\ Budget(MaxDmcOps)
    /\ \E w \in DmcWrites : Write(w[1], w[2])

DmcBind ==
    /\ Budget(MaxDmcOps)
    /\ \E c \in DmcContexts : SetReadCallback("read_const", c)

DmcStep ==
    /\ Budget(MaxDmcOps)
    /\ Step(1)

DmcNext == DmcWrite \/ DmcBind \/ DmcStep

SpecDmc == Init /\ [][DmcNext]_vars

\* C9: the DMC output level always lies in 0..127, a stepped cycle (at most
\* one processed bit) changes it by +2, -2 or 0, and a write to 0x4011 loads
\* the low seven bits of the byte.
C9_OutputLevelRange ==
    /\ [](apu.dmc.outputLevel \in 0..127)
    /\ [][ /\ (op'.name = "step") =>
                (apu'.dmc.outputLevel - apu.dmc.outputLevel) \in {-2, 0, 2}
           /\ (op'.name = "write" /\ op'.args[1] = 16401) =>
                apu'.dmc.outputLevel = op'.args[2] % 128
         ]_vars

\* C9 witness: after a direct load of 125, a fetched byte 0xFF has raised the
\* level to 127 and the following 1 bits have been held there by the clamp.
C9_Witness ==
    /\ op.name = "step"
    /\ apu.dmc.outputLevel = 127
    /\ apu.dmc.directLoad = 125
    /\ apu.dmc.bitCount = 5
    /\ apu.dmc.shiftRegister = 31


(***************************************************************************)
(* Spec: one caller using the whole public interface, with a few bytes for *)
(* every group of registers (two unmapped addresses among them).           *)
(***************************************************************************)
MaxOps == 3

SpecWrites ==
    { <<16384, 63>>, <<16385, 137>>, <<16386, 128>>, <<16387, 8>>,
      <<16392, 127>>, <<16395, 9>>, <<16398, 133>>, <<16399, 16>>,
      <<16401, 64>>, <<16403, 1>>, <<16405, 31>>, <<16407, 128>>,
      <<16393, 255>>, <<16404, 1>> }

StepCycles == {0, 1, 3}
SampleRates == {44100}
FillCounts == {-1, 0, 2}
Callbacks == { <<"read_const", 255>>, <<"read_addr", 1>>, <<NULL, 0>> }

DoWrite ==
    /\ Budget(MaxOps)
    /\ \E w \in SpecWrites : Write(w[1], w[2])

DoStep ==
    /\ Budget(MaxOps)
    /\ \E c \in StepCycles : Step(c)

DoReadStatus ==
    /\ Budget(MaxOps)
    /\ ReadStatus

DoNextSample ==
    /\ Budget(MaxOps)
    /\ \E r \in SampleRates : NextSample(r)

DoFillBuffer ==
    /\ Budget(MaxOps)
    /\ \E r \in SampleRates : \E isNull \in BOOLEAN : \E c \in FillCounts :
          FillBuffer(r, isNull, c)

DoReset ==
    /\ Budget(MaxOps)
    /\ Reset

DoSetReadCallback ==
    /\ Budget(MaxOps)
    /\ \E cb \in Callbacks : SetReadCallback(cb[1], cb[2])

Next ==
    \/ DoWrite
    \/ DoStep
    \/ DoReadStatus
    \/ DoNextSample
    \/ DoFillBuffer
    \/ DoReset
    \/ DoSetReadCallback

Spec == Init /\ [][Next]_vars

\* C10: apu_reset leaves the power-on state of apu_init except that the read
\* callback and its context are the ones bound before the call, and leaves
\* the mutex unlocked; a reset that directly follows a reset changes nothing.
C10_ResetIsInit ==
    [][ (op'.name = "reset") =>
          /\ apu' = [apu_init EXCEPT !.read = apu.read,
                                     !.readContext = apu.readContext]
          /\ mutex' = NoThread
          /\ (op.name = "reset") => (apu' = apu)
      ]_vars

\* C10 witness: a reset taken as the third step has kept a bound callback and
\* put every other field back to its power-on value.
C10_Witness ==
    /\ op.name = "reset"
    /\ taken = 3
    /\ apu.read = "read_addr"
    /\ apu.readContext = 1
    /\ apu.noise.lfsr = 1
    /\ apu.frameCounterCycle = 0


(***************************************************************************)
(* Two threads.  A call of a locking operation is at <op>_lock while it    *)
(* waits in pthread_mutex_lock, at <op>_body from the return of the lock   *)
(* call, and at <op>_unlock once the body is done and pthread_mutex_unlock *)
(* is next.  apu_reset and apu_set_read_callback take no lock; they are    *)
(* split at their stores.                                                  *)
(***************************************************************************)
MaxThreadCalls == 4

ThreadWrites == { <<16387, 8>>, <<16405, 1>>, <<16407, 128>> }

Goto(t, label) == pc' = [pc EXCEPT ![t] = label]

SetLocals(t, locals) == loc' = [loc EXCEPT ![t] = locals]

\* pthread_mutex_lock returns once the mutex is free, and then t owns it.
Acquire_nowait(t) == mutex' = t

Acquire(t) == mutex = NoThread /\ mutex' = t

\* pthread_mutex_unlock.  Unlocking a mutex the caller does not own (it was
\* re-created under the caller by apu_reset) is undefined: the call either
\* fails and leaves the mutex alone, or unlocks it.
Release(t) ==
    IF mutex = t
    THEN mutex' = NoThread
    ELSE mutex' \in {mutex, NoThread}

\* Entering an operation with its arguments in the thread's locals.
Call(t, label, locals) ==
    /\ pc[t] = "idle"
    /\ Budget(MaxThreadCalls)
    /\ Goto(t, label)
    /\ SetLocals(t, locals)
    /\ UNCHANGED <<apu, mutex, op>>

Lock(t, from, to) ==
    /\ pc[t] = from
    /\ Acquire(t)
    /\ Goto(t, to)
    /\ UNCHANGED <<apu, loc, op, taken>>

Unlock(t, from, name, args, ret) ==
    /\ pc[t] = from
    /\ Release(t)
    /\ Goto(t, "idle")
    /\ SetLocals(t, NoLocals)
    /\ Done(name, args, ret)
    /\ UNCHANGED <<apu, taken>>

CpuWriteCall(t) ==
    \E w \in ThreadWrites :
       Call(t, "write_lock", [NoLocals EXCEPT !.addr = w[1], !.data = w[2]])

CpuWriteLock(t) == Lock(t, "write_lock", "write_body")

CpuWriteBody(t) ==
    /\ pc[t] = "write_body"
    /\ apu' = apu_cpu_write(apu, loc[t].addr, loc[t].data)
    /\ Goto(t, "write_unlock")
    /\ UNCHANGED <<mutex, loc, op, taken>>

CpuWriteUnlock(t) ==
    Unlock(t, "write_unlock", "write", <<loc[t].addr, loc[t].data>>, 0)

ReadStatusCall(t) == Call(t, "status_lock", NoLocals)

ReadStatusLock(t) == Lock(t, "status_lock", "status_body")

ReadStatusBody(t) ==
    /\ pc[t] = "status_body"
    /\ SetLocals(t, [loc[t] EXCEPT !.ret = apu_read_status(apu)])
    /\ Goto(t, "status_unlock")
    /\ UNCHANGED <<apu, mutex, op, taken>>

ReadStatusUnlock(t) ==
    Unlock(t, "status_unlock", "read_status", << >>, loc[t].ret)

StepCall(t) == Call(t, "step_lock", [NoLocals EXCEPT !.cycles = 1])

StepLock(t) == Lock(t, "step_lock", "step_body")

StepBody(t) ==
    /\ pc[t] = "step_body"
    /\ apu' = apu_step_cycles_unlocked(apu, loc[t].cycles)
    /\ Goto(t, "step_unlock")
    /\ UNCHANGED <<mutex, loc, op, taken>>

StepUnlock(t) == Unlock(t, "step_unlock", "step", <<loc[t].cycles>>, 0)

NextSampleCall(t) ==
    \E r \in SampleRates : Call(t, "sample_lock", [NoLocals EXCEPT !.rate = r])

NextSampleLock(t) == Lock(t, "sample_lock", "sample_body")

NextSampleBody(t) ==
    /\ pc[t] = "sample_body"
    /\ LET r == apu_next_sample_unlocked(apu, loc[t].rate)
       IN  /\ apu' = r.apu
           /\ SetLocals(t, [loc[t] EXCEPT !.ret = r.out])
    /\ Goto(t, "sample_unlock")
    /\ UNCHANGED <<mutex, op, taken>>

NextSampleUnlock(t) ==
    Unlock(t, "sample_unlock", "next_sample", <<loc[t].rate>>, loc[t].ret)

\* apu_fill_buffer with a null buffer or count <= 0: lines 582-584.
FillBufferReturn(t) ==
    /\ pc[t] = "idle"
    /\ Budget(MaxThreadCalls)
    /\ \E r \in SampleRates : \E isNull \in BOOLEAN : \E c \in FillCounts :
          /\ isNull \/ c <= 0
          /\ Done("fill_buffer", <<r, isNull, c>>, << >>)
    /\ UNCHANGED <<apu, mutex, pc, loc>>

\* apu_fill_buffer with a buffer and count > 0, up to the lock call: 582-586.
FillBufferCall(t) ==
    \E r \in SampleRates : \E c \in FillCounts :
       /\ c > 0
       /\ Call(t, "fill_lock", [NoLocals EXCEPT !.rate = r, !.count = c])

FillBufferLock_skipped(t) ==
    /\ pc[t] = "fill_lock"
    /\ Goto(t, "fill_body")
    /\ UNCHANGED <<apu, mutex, loc, op, taken>>

FillBufferLock(t) == Lock(t, "fill_lock", "fill_body")

\* One iteration of the loop, lines 587-595.
FillBufferSample(t) ==
    /\ pc[t] = "fill_body"
    /\ loc[t].i < loc[t].count
    /\ LET r == apu_fill_sample(apu, loc[t].rate)
       IN  /\ apu' = r.apu
           /\ SetLocals(t, [loc[t] EXCEPT !.i = @ + 1, !.out = Append(@, r.out)])
    /\ UNCHANGED <<mutex, pc, op, taken>>

FillBufferUnlock(t) ==
    /\ loc[t].i >= loc[t].count
    /\ Unlock(t, "fill_body", "fill_buffer",
              <<loc[t].rate, FALSE, loc[t].count>>, loc[t].out)

LockingNext ==
    \E t \in Threads :
       \/ CpuWriteCall(t) \/ CpuWriteLock(t) \/ CpuWriteBody(t) \/ CpuWriteUnlock(t)
       \/ ReadStatusCall(t) \/ ReadStatusLock(t) \/ ReadStatusBody(t)
       \/ ReadStatusUnlock(t)
       \/ StepCall(t) \/ StepLock(t) \/ StepBody(t) \/ StepUnlock(t)
       \/ NextSampleCall(t) \/ NextSampleLock(t) \/ NextSampleBody(t)
       \/ NextSampleUnlock(t)
       \/ FillBufferReturn(t) \/ FillBufferCall(t) \/ FillBufferLock(t)
       \/ FillBufferSample(t) \/ FillBufferUnlock(t)

SpecThreads == Init /\ [][LockingNext]_vars

\* The labels between the return of pthread_mutex_lock and the return of
\* pthread_mutex_unlock: every access to the aggregate happens at one of them.
BodyLabels ==
    { "write_body", "write_unlock", "status_body", "status_unlock",
      "step_body", "step_unlock", "sample_body", "sample_unlock", "fill_body" }

InBody(t) == pc[t] \in BodyLabels

\* Thread t took the step.
Acts(t) == pc'[t] # pc[t] \/ loc'[t] # loc[t]

\* C4: with two threads calling the five locking operations in any
\* interleaving, a thread inside an operation body holds the mutex, no two
\* threads are inside a body at once, an idle thread never holds the mutex,
\* every step that changes the aggregate is taken by the mutex holder, and
\* while a buffer fill is between its lock and unlock no other thread changes
\* the aggregate.
C4_MutexDiscipline ==
    /\ [](\A t \in Threads : InBody(t) => mutex = t)
    /\ [](Cardinality({t \in Threads : InBody(t)}) <= 1)
    /\ [](\A t \in Threads : pc[t] \in {"idle", "write_lock", "status_lock",
                                         "step_lock", "sample_lock", "fill_lock"}
                               => mutex # t)
    /\ [][ \A t \in Threads :
             /\ (Acts(t) /\ apu' # apu) => (mutex = t /\ InBody(t))
             /\ (pc[t] = "fill_body" /\ ~Acts(t)) => apu' = apu ]_vars

\* C4 witness: the audio thread is in the middle of a two-sample fill, holding
\* the mutex, while the CPU thread waits in pthread_mutex_lock for a write.
C4_Witness ==
    /\ pc["audio"] = "fill_body"
    /\ loc["audio"].i = 1
    /\ loc["audio"].count = 2
    /\ mutex = "audio"
    /\ pc["cpu"] = "write_lock"


(***************************************************************************)
(* SpecRace: the same two threads with apu_reset and                       *)
(* apu_set_read_callback added.  Neither takes the mutex.                  *)
(***************************************************************************)
\* apu_reset, lines 383-384: the binding is read into locals.
ResetSave(t) ==
    Call(t, "reset_clear",
         [NoLocals EXCEPT !.read = apu.read, !.context = apu.readContext])

\* Lines 385-387: the mutex is destroyed, the aggregate zeroed and the mutex
\* created again, unlocked, whoever held it.
ResetClear(t) ==
    /\ pc[t] = "reset_clear"
    /\ apu' = ZeroAPU
    /\ mutex' = NoThread
    /\ Goto(t, "reset_restore")
    /\ UNCHANGED <<loc, op, taken>>

\* Lines 388-394.
ResetRestore(t) ==
    /\ pc[t] = "reset_restore"
    /\ apu' = apu_reset_restore(apu, loc[t].read, loc[t].context)
    /\ Goto(t, "idle")
    /\ SetLocals(t, NoLocals)
    /\ Done("reset", << >>, 0)
    /\ UNCHANGED <<mutex, taken>>

\* apu_set_read_callback, line 398.
SetCallbackRead(t) ==
    /\ pc[t] = "idle"
    /\ Budget(MaxThreadCalls)
    /\ \E cb \in Callbacks :
          /\ apu' = [apu EXCEPT !.read = cb[1]]
          /\ SetLocals(t, [NoLocals EXCEPT !.read = cb[1], !.context = cb[2]])
    /\ Goto(t, "setcb_context")
    /\ UNCHANGED <<mutex, op>>

\* Line 399.
SetCallbackContext(t) ==
    /\ pc[t] = "setcb_context"
    /\ apu' = [apu EXCEPT !.readContext = loc[t].context]
    /\ Goto(t, "idle")
    /\ Done("set_read_callback", <<loc[t].read, loc[t].context>>, 0)
    /\ SetLocals(t, NoLocals)
    /\ UNCHANGED <<mutex, taken>>

UnlockedNext ==
    \E t \in Threads :
       \/ ResetSave(t) \/ ResetClear(t) \/ ResetRestore(t)
       \/ SetCallbackRead(t) \/ SetCallbackContext(t)

RaceNext == LockingNext \/ UnlockedNext

SpecRace == Init /\ [][RaceNext]_vars

\* A thread is inside an operation from its first access to the aggregate
\* to its last.
InOperation(t) ==
    InBody(t) \/ pc[t] \in {"reset_clear", "reset_restore", "setcb_context"}

\* C5: no two threads are inside an operation on the aggregate at once,
\* apu_reset and apu_set_read_callback included.
C5_FullySerialized ==
    \A t1, t2 \in Threads : (t1 # t2) => ~(InOperation(t1) /\ InOperation(t2))


(***************************************************************************)
(* SpecStatus: the enable register 0x4015 and the status read.  The        *)
(* initial states are built by register writes on the power-on state: a    *)
(* DMC sample of 1 byte at 0xC040, an enable mask, and optionally a        *)
(* length load for each of the four length-counted channels.               *)
(***************************************************************************)
MaxStatusOps == 2

StatusSetupMasks == {0, 10, 21, 31}

StatusLengthWrites == { <<16387, 9>>, <<16391, 9>>, <<16395, 9>>, <<16399, 8>> }

StatusSetup(mask, loaded) ==
    LET a1 == apu_cpu_write(apu_init, 16402, 1)
        a2 == apu_cpu_write(a1, 16403, 0)
        a3 == apu_cpu_write(a2, 16405, mask)
        l1 == apu_cpu_write(a3, 16387, 9)
        l2 == apu_cpu_write(l1, 16391, 9)
        l3 == apu_cpu_write(l2, 16395, 9)
        l4 == apu_cpu_write(l3, 16399, 8)
    IN  IF loaded THEN l4 ELSE a3

StatusInit ==
    /\ \E mask \in StatusSetupMasks : \E loaded \in BOOLEAN :
          apu = StatusSetup(mask, loaded)
    /\ mutex = NoThread
    /\ pc = [t \in Threads |-> "idle"]
    /\ loc = [t \in Threads |-> NoLocals]
    /\ op = [name |-> "write", args |-> <<16399, 8>>, ret |-> 0]
    /\ taken = 0

StatusWriteEnable ==
    /\ Budget(MaxStatusOps)
    /\ \E mask \in 0..31 : Write(16405, mask)

StatusWriteLength ==
    /\ Budget(MaxStatusOps)
    /\ \E w \in StatusLengthWrites : Write(w[1], w[2])

StatusStep ==
    /\ Budget(MaxStatusOps)
    /\ Step(1)

StatusRead ==
    /\ Budget(MaxStatusOps)
    /\ ReadStatus

StatusNext == StatusWriteEnable \/ StatusWriteLength \/ StatusStep \/ StatusRead

SpecStatus == StatusInit /\ [][StatusNext]_vars

\* C11: after a write of mask m to 0x4015, whatever the state before, each
\* of pulse 1, pulse 2, triangle and noise whose bit 0..3 of m is clear is
\* disabled with length counter 0, and with bit 4 clear the DMC is disabled
\* with no bytes remaining; a status read that directly follows a write of
\* 0x00 returns 0.
C11_DisableClears ==
    [][ /\ (op'.name = "write" /\ op'.args[1] = 16405) =>
             LET m == op'.args[2]
             IN  /\ (Bit(m, 0) = 0) =>
                       (~apu'.pulse1.enabled /\ apu'.pulse1.lengthCounter = 0)
                 /\ (Bit(m, 1) = 0) =>
                       (~apu'.pulse2.enabled /\ apu'.pulse2.lengthCounter = 0)
                 /\ (Bit(m, 2) = 0) =>
                       (~apu'.triangle.enabled /\ apu'.triangle.lengthCounter = 0)
                 /\ (Bit(m, 3) = 0) =>
                       (~apu'.noise.enabled /\ apu'.noise.lengthCounter = 0)
                 /\ (Bit(m, 4) = 0) =>
                       (~apu'.dmc.enabled /\ apu'.dmc.bytesRemaining = 0)
        /\ (op.name = "write" /\ op.args = <<16405, 0>> /\ op'.name = "read_status") =>
             op'.ret = 0
      ]_vars

\* C11 witness: 0x00 was written to 0x4015 as the first operation on a state
\* where the four length counters were loaded and the DMC had been started
\* at 0xC040 with 1 byte; everything is disabled and empty.
C11_Witness ==
    /\ op.name = "write"
    /\ op.args = <<16405, 0>>
    /\ taken = 1
    /\ apu.pulse1.timer = 256
    /\ apu.noise.envStart
    /\ apu.dmc.currentAddress = 49216
    /\ apu.dmc.sampleLength = 1
    /\ apu.dmc.bytesRemaining = 0
    /\ apu.pulse1.lengthCounter = 0
    /\ ~apu.dmc.enabled

\* C12: apu_read_status returns a byte whose bits 0..3 are set exactly when
\* pulse 1, pulse 2, triangle and noise are enabled with a nonzero length
\* counter, whose bit 4 is set exactly when the DMC has bytes remaining and
\* whose bits 5..7 are 0, and the read leaves the aggregate as it was.
C12_StatusByte ==
    [][ (op'.name = "read_status") =>
          LET r == op'.ret
          IN  /\ r \in 0..31
              /\ (Bit(r, 0) = 1) <=> (apu.pulse1.enabled /\ apu.pulse1.lengthCounter > 0)
              /\ (Bit(r, 1) = 1) <=> (apu.pulse2.enabled /\ apu.pulse2.lengthCounter > 0)
              /\ (Bit(r, 2) = 1) <=> (apu.triangle.enabled /\ apu.triangle.lengthCounter > 0)
              /\ (Bit(r, 3) = 1) <=> (apu.noise.enabled /\ apu.noise.lengthCounter > 0)
              /\ (Bit(r, 4) = 1) <=> (apu.dmc.bytesRemaining > 0)
              /\ apu' = apu
              /\ mutex' = mutex
      ]_vars

\* C12 witness: a read returned 0x15 (pulse 1, triangle, DMC) while pulse 2
\* and noise held a loaded length counter but were disabled.
C12_Witness ==
    /\ op.name = "read_status"
    /\ op.ret = 21
    /\ apu.pulse2.lengthCounter > 0
    /\ ~apu.pulse2.enabled
    /\ apu.noise.lengthCounter > 0
    /\ apu.dmc.bytesRemaining = 1


(***************************************************************************)
(* SpecUnmapped: register writes to addresses inside and outside the       *)
(* register map, with cycle steps in between.                              *)
(***************************************************************************)
MaxUnmappedOps == 3

\* The addresses the switch of apu_cpu_write has a case for.
RegisterMap ==
    (16384..16392) \cup (16394..16396) \cup (16398..16403) \cup {16405, 16407}

UnmappedAddresses == {16393, 16397, 16404, 16406, 16383, 16408, 0, 65535}

UnmappedBytes == {0, 128, 255}

UnmappedSetup ==
    /\ Budget(MaxUnmappedOps)
    /\ \E w \in SpecWrites : Write(w[1], w[2])

UnmappedWrite ==
    /\ Budget(MaxUnmappedOps)
    /\ \E addr \in UnmappedAddresses : \E data \in UnmappedBytes : Write(addr, data)

UnmappedStep ==
    /\ Budget(MaxUnmappedOps)
    /\ Step(1)

UnmappedNext == UnmappedSetup \/ UnmappedWrite \/ UnmappedStep

SpecUnmapped == Init /\ [][UnmappedNext]_vars

\* C13: a write of any byte to an address outside the register map leaves
\* every field of the aggregate and the mutex as they were, and returns
\* normally.
C13_UnmappedIgnored ==
    [][ (op'.name = "write" /\ op'.args[1] \notin RegisterMap) =>
          /\ apu' = apu
          /\ mutex' = mutex
          /\ op'.ret = 0
      ]_vars

\* C13 witness: 0xFF written to 0x400D as the third operation, on a state
\* where the noise channel had been programmed; the noise control byte is
\* not 0xFF.
C13_Witness ==
    /\ op.name = "write"
    /\ op.args = <<16397, 255>>
    /\ taken = 3
    /\ apu.noise.lengthCounter > 0
    /\ apu.noise.control = 128


(***************************************************************************)
(* SpecFill: one audio callback pulling samples at 8000 Hz with            *)
(* apu_fill_buffer, one sample per call, since power-on.  op carries the   *)
(* running totals: samples produced and cycles stepped, the latter read    *)
(* off the frame counter (4-step mode wraps it at 14915, far more than one *)
(* call steps).                                                            *)
(***************************************************************************)
MaxFillSamples == 8000

FillRate == 8000

FillCallCounts == {1}

FrameLength == 14915

FillInit ==
    /\ apu = apu_init
    /\ mutex = NoThread
    /\ pc = [t \in Threads |-> "idle"]
    /\ loc = [t \in Threads |-> NoLocals]
    /\ op = [name |-> "init", args |-> << >>, ret |-> << >>, samples |-> 0, cycles |-> 0]
    /\ taken = 0

FillCall ==
    \E count \in FillCallCounts :
       /\ Quiet
       /\ op.samples + count <= MaxFillSamples
       /\ \E r \in {apu_fill_buffer(apu, FillRate, FALSE, count)} :
             LET stepped == (r.apu.frameCounterCycle - apu.frameCounterCycle) % FrameLength
             IN  /\ apu' = r.apu
                 /\ op' = [name |-> "fill_buffer", args |-> <<FillRate, FALSE, count>>,
                           ret |-> r.out, samples |-> op.samples + count,
                           cycles |-> op.cycles + stepped]
       /\ taken' = taken + 1
       /\ UNCHANGED <<mutex, pc, loc>>

FillNext == FillCall

SpecFill == FillInit /\ [][FillNext]_vars

\* floor(k * 1789773 / R), split so that no product exceeds 32 bits.
IdealCycles(k, R) ==
    ((apu_cpu_clock \div R) * k) + (((apu_cpu_clock % R) * k) \div R)

\* The stored remainder, a double, lies in [0, 1).
RemainderInUnit(r) ==
    \/ r.exact \in 1..(RemainderOne - 1)
    \/ r.exact = 0 /\ r.err >= 0
    \/ r.exact = RemainderOne /\ r.err < 0

\* C14: after k samples produced by apu_fill_buffer at rate R across any
\* number of calls, the cycles stepped by the filler total
\* floor(k * 1789773 / R), and the stored remainder is in [0, 1).
C14_TotalCycles ==
    (op.name = "fill_buffer") =>
       /\ op.cycles = IdealCycles(op.samples, FillRate)
       /\ RemainderInUnit(apu.sampleCycleRemainder)


(***************************************************************************)
(* Invalid buffer-fill arguments, under Spec.                              *)
(***************************************************************************)
\* C15: apu_fill_buffer with a null buffer or count <= 0 writes no sample,
\* steps no cycle, leaves the mutex alone and changes no field of the
\* aggregate, the cycle remainder and the filter included.
C15_InvalidFillNoop ==
    [][ (op'.name = "fill_buffer" /\ (op'.args[2] \/ op'.args[3] <= 0)) =>
          /\ op'.ret = << >>
          /\ apu' = apu
          /\ mutex' = mutex
      ]_vars

\* C15 witness: a call with a null buffer and count 2 returned on a state
\* whose remainder and filter an earlier fill had left nonzero.
C15_Witness ==
    /\ op.name = "fill_buffer"
    /\ op.args = <<44100, TRUE, 2>>
    /\ apu.sampleCycleRemainder.exact > 0
    /\ apu.frameCounterCycle = 81
    /\ apu.outputFilter > 0


(***************************************************************************)
(* The noise timer and the feedback mode, under SpecNoise.                 *)
(***************************************************************************)
\* C16: on a stepped cycle where the noise countdown is 0 the LFSR becomes
\* (old >> 1) | (fb << 14), fb being bit 0 XOR bit 1 of the old value with
\* the mode flag clear and bit 0 XOR bit 6 with it set, and the countdown is
\* reloaded with the period; on any other cycle the LFSR is unchanged and the
\* countdown decreases by 1.
C16_NoiseTimerTick ==
    [][ (op'.name = "step" /\ op'.args = <<1>>) =>
          LET old == apu.noise.lfsr
              tap == IF apu.noise.control >= 128 THEN 6 ELSE 1
              fb == ((old % 2) + ((old \div (2 ^ tap)) % 2)) % 2
          IN  IF apu.noise.timerCounter = 0
              THEN /\ apu'.noise.lfsr = (old \div 2) + (fb * 16384)
                   /\ apu'.noise.timerCounter = apu.noise.timer
              ELSE /\ apu'.noise.lfsr = old
                   /\ apu'.noise.timerCounter = apu.noise.timerCounter - 1
      ]_vars

\* C16 witness: a tick in short mode has just taken the LFSR from 0x0040 to
\* 0x4020 (feedback 1 from bit 6) and reloaded the countdown.
C16_Witness ==
    /\ op.name = "step"
    /\ apu.noise.control >= 128
    /\ apu.noise.lfsr = 16416
    /\ apu.noise.timerCounter = apu.noise.timer

\* The noise feedback-mode flag: bit 7 of the control byte (noise_tick_timer).
NoiseMode(a) == Bit(a.noise.control, 7)

\* C17: the mode flag equals bit 7 of the byte most recently written to
\* 0x400E, clear if none since power-on or reset: a write to 0x400E sets the
\* flag and the period and keeps the other control bits, and no other
\* operation but a reset, which clears it, changes the flag.
C17_ModeFromPeriodRegister ==
    /\ (op.name = "init") => (NoiseMode(apu) = 0)
    /\ [][ /\ (op'.name = "write" /\ op'.args[1] = 16398) =>
                 /\ NoiseMode(apu') = Bit(op'.args[2], 7)
                 /\ apu'.noise.timer = noise_period_table[(op'.args[2] % 16) + 1]
                 /\ apu'.noise.control % 128 = apu.noise.control % 128
           /\ (op'.name = "write" /\ op'.args[1] # 16398) =>
                 NoiseMode(apu') = NoiseMode(apu)
           /\ (op'.name = "step") => NoiseMode(apu') = NoiseMode(apu)
           /\ (op'.name = "reset") => NoiseMode(apu') = 0
         ]_vars


(***************************************************************************)
(* SpecEnvelope: the envelopes of pulse 1, pulse 2 and noise.  The initial *)
(* states are built by one control write per channel on the power-on       *)
(* state; the caller then clocks quarter frames (a write of 0x80 to 0x4017 *)
(* clocks one at once) and restarts envelopes through the length           *)
(* registers.                                                              *)
(***************************************************************************)
MaxEnvelopeOps == 20

\* The control bytes of pulse 1, pulse 2 and noise: V = 0 and V = 2 without
\* loop, V = 0 and V = 1 with loop, each on every channel.
EnvelopeControls ==
    { <<0, 2, 32>>, <<33, 0, 2>>, <<2, 32, 0>>, <<32, 33, 33>> }

EnvelopeRestarts == { <<16387, 8>>, <<16399, 8>> }

EnvelopeSetup(c1, c2, c3) ==
    apu_cpu_write(apu_cpu_write(apu_cpu_write(apu_init, 16384, c1), 16388, c2), 16396, c3)

EnvelopeInit ==
    /\ \E c \in EnvelopeControls : apu = EnvelopeSetup(c[1], c[2], c[3])
    /\ mutex = NoThread
    /\ pc = [t \in Threads |-> "idle"]
    /\ loc = [t \in Threads |-> NoLocals]
    /\ op = [name |-> "write", args |-> <<16396, apu.noise.control>>, ret |-> 0]
    /\ taken = 0

EnvelopeClock ==
    /\ Budget(MaxEnvelopeOps)
    /\ Write(16407, 128)

EnvelopeRestart ==
    /\ Budget(MaxEnvelopeOps)
    /\ \E w \in EnvelopeRestarts : Write(w[1], w[2])

EnvelopeNext == EnvelopeClock \/ EnvelopeRestart

SpecEnvelope == EnvelopeInit /\ [][EnvelopeNext]_vars

\* One envelope tick as C18 states it, from channel state before to after.
EnvelopeTicks(before, after) ==
    LET V == before.control % 16
        loop == (before.control \div 32) % 2 = 1
    IN  /\ after.control = before.control
        /\ ~after.envStart
        /\ IF before.envStart
           THEN after.envDecay = 15 /\ after.envDivider = V
           ELSE IF before.envDivider = 0
           THEN /\ after.envDivider = V
                /\ after.envDecay = (IF before.envDecay > 0 THEN before.envDecay - 1
                                     ELSE IF loop THEN 15 ELSE 0)
           ELSE /\ after.envDivider = before.envDivider - 1
                /\ after.envDecay = before.envDecay

\* With loop clear and no restart pending or made, a decay of 0 stays 0.
EnvelopeStaysSilent(before, after) ==
    (before.envDecay = 0 /\ (before.control \div 32) % 2 = 0
        /\ ~before.envStart /\ ~after.envStart) => after.envDecay = 0

\* C18: a quarter-frame tick of the pulse and noise envelopes with the start
\* flag set clears the flag, sets decay to 15 and the divider to V =
\* control & 0x0F; with the flag clear a divider at zero is reloaded with V
\* and decay drops by one, or returns to 15 from 0 when the loop bit is set,
\* and a nonzero divider drops by one; decay stays in 0..15 and, with loop
\* clear, stays 0 until the envelope is restarted.
C18_EnvelopeTick ==
    /\ [](/\ apu.pulse1.envDecay \in 0..15
          /\ apu.pulse2.envDecay \in 0..15
          /\ apu.noise.envDecay \in 0..15)
    /\ [][ /\ (op'.name = "write" /\ op'.args = <<16407, 128>>) =>
                 /\ EnvelopeTicks(apu.pulse1, apu'.pulse1)
                 /\ EnvelopeTicks(apu.pulse2, apu'.pulse2)
                 /\ EnvelopeTicks(apu.noise, apu'.noise)
           /\ EnvelopeStaysSilent(apu.pulse1, apu'.pulse1)
           /\ EnvelopeStaysSilent(apu.pulse2, apu'.pulse2)
           /\ EnvelopeStaysSilent(apu.noise, apu'.noise)
         ]_vars

\* C18 witness: after 18 ticks pulse 1 (V = 0, loop clear) has decayed to 0
\* and stayed there, the noise envelope (V = 0, loop set) has wrapped to 15
\* and come down to 14, and pulse 2 (V = 2) is at 10 with its divider
\* running.
C18_Witness ==
    /\ op.args = <<16407, 128>>
    /\ taken = 18
    /\ apu.pulse1.control = 0 /\ apu.pulse1.envDecay = 0
    /\ apu.noise.control = 32 /\ apu.noise.envDecay = 14
    /\ apu.pulse2.control = 2 /\ apu.pulse2.envDecay = 10


(***************************************************************************)
(* SpecDecay: the length counters with no further register writes.  The    *)
(* initial states are built by register writes on the power-on state:      *)
(* the sequencer mode, all four channels enabled, the halt bits of pulse   *)
(* 1 and noise and the linear-control flag of triangle set or clear        *)
(* (pulse 2 never halted), and lengths 2 (pulse 1, triangle) and 4 (pulse  *)
(* 2, noise).  The emulated CPU then keeps stepping, 100 cycles per call.   *)
(***************************************************************************)
MaxDecaySteps == 336

\* Cycles per call of apu_step.
DecayCycles == 100

DecaySetup(mode5, halted) ==
    LET m == apu_cpu_write(apu_init, 16407, IF mode5 THEN 128 ELSE 0)
        e == apu_cpu_write(m, 16405, 15)
        c1 == apu_cpu_write(e, 16384, IF halted THEN 32 ELSE 0)
        c2 == apu_cpu_write(c1, 16388, 0)
        c3 == apu_cpu_write(c2, 16392, IF halted THEN 128 ELSE 0)
        c4 == apu_cpu_write(c3, 16396, IF halted THEN 32 ELSE 0)
        l1 == apu_cpu_write(c4, 16387, 24)
        l2 == apu_cpu_write(l1, 16391, 40)
        l3 == apu_cpu_write(l2, 16395, 24)
    IN  apu_cpu_write(l3, 16399, 40)

DecayInit ==
    /\ \E mode5 \in BOOLEAN : \E halted \in BOOLEAN : apu = DecaySetup(mode5, halted)
    /\ mutex = NoThread
    /\ pc = [t \in Threads |-> "idle"]
    /\ loc = [t \in Threads |-> NoLocals]
    /\ op = [name |-> "write", args |-> <<16399, 40>>, ret |-> 0]
    /\ taken = 0

DecayStep ==
    /\ Budget(MaxDecaySteps)
    /\ Step(DecayCycles)

DecayNext == DecayStep

\* The caller's next call of apu_step seen from its budget alone: it is
\* enabled exactly when DecayStep is, and every step of the specification
\* that satisfies it is a DecayStep.
DecayCall == taken < MaxDecaySteps /\ taken' = taken + 1

\* The caller keeps stepping: a call that stays possible is made.
SpecDecay == DecayInit /\ [][DecayNext]_vars /\ WF_taken(DecayCall)

\* Length counter len with halt flag halt, over a step that fired h
\* half-frame events.
LengthTicks(halt, len, lenAfter, h) ==
    IF halt
    THEN lenAfter = len
    ELSE lenAfter = (IF len >= h THEN len - h ELSE 0)

\* The length counter is 0 and the status bit reads 0.
RanOut(len, bit) ==
    len = 0 /\ (apu_read_status(apu) \div (2 ^ bit)) % 2 = 0

\* C19: with no register writes and the emulation being stepped, in either
\* sequencer mode, the length counter of a pulse or noise channel whose halt
\* bit is clear, or of the triangle with linear-control clear, drops by
\* exactly 1 per half-frame event, never below 0, reaches 0 and stays there,
\* and the channel's status bit reads 0 from then on; with the flag set,
\* half-frame events leave the counter as it is.
C19_LengthRunsOut ==
    /\ [][ (op'.name = "step") =>
             LET h == Cardinality({ i \in DOMAIN op'.ret : "half" \in op'.ret[i] })
             IN  /\ LengthTicks(Bit(apu.pulse1.control, 5) = 1,
                                apu.pulse1.lengthCounter, apu'.pulse1.lengthCounter, h)
                 /\ LengthTicks(Bit(apu.pulse2.control, 5) = 1,
                                apu.pulse2.lengthCounter, apu'.pulse2.lengthCounter, h)
                 /\ LengthTicks(apu.triangle.linearControl,
                                apu.triangle.lengthCounter, apu'.triangle.lengthCounter, h)
                 /\ LengthTicks(Bit(apu.noise.control, 5) = 1,
                                apu.noise.lengthCounter, apu'.noise.lengthCounter, h)
         ]_vars
    /\ (Bit(apu.pulse1.control, 5) = 0) => <>[]RanOut(apu.pulse1.lengthCounter, 0)
    /\ (Bit(apu.pulse2.control, 5) = 0) => <>[]RanOut(apu.pulse2.lengthCounter, 1)
    /\ (~apu.triangle.linearControl) => <>[]RanOut(apu.triangle.lengthCounter, 2)
    /\ (Bit(apu.noise.control, 5) = 0) => <>[]RanOut(apu.noise.lengthCounter, 3)

\* C19 witness: in 5-step mode the fourth half-frame event has just taken
\* pulse 2 from 1 to 0 while the halted pulse 1, triangle and noise still
\* hold the lengths they were loaded with.
C19_Witness ==
    /\ op.name = "step"
    /\ \E i \in DOMAIN op.ret : "half" \in op.ret[i]
    /\ taken = 336
    /\ apu.frameCounterMode
    /\ apu.pulse2.lengthCounter = 0
    /\ apu.pulse1.lengthCounter = 2
    /\ apu.triangle.lengthCounter = 2
    /\ apu.noise.lengthCounter = 4
    /\ apu_read_status(apu) = 13


(***************************************************************************)
(* SpecFetch: the DMC reader.  The host binds a callback that returns the  *)
(* low byte of the address plus 1, selects the fastest rate with loop set  *)
(* or clear, programs a 65-byte sample at 0xFFC0 (it crosses 0xFFFF) or a  *)
(* 1-byte sample at 0xC000 and enables the channel.  The emulated CPU then *)
(* steps one timer period per call and, among its first operations,        *)
(* writes 0x4015 with bit 4 clear or set.                                  *)
(***************************************************************************)
MaxFetchOps == 530
MaxFetchWrites == 4

\* Cycles per call of apu_step: one period of the fastest DMC rate.
FetchCycles == 55

FetchStatusBytes == {15, 16}

\* The invocation of apu->read made by dmc_fetch_sample on aggregate a
\* (line 318), with the channel on entry and on return; none when the
\* function returns early or no callback is bound.
dmc_read_calls(a) ==
    IF a.dmc.sampleBufferEmpty /\ a.dmc.bytesRemaining # 0 /\ a.read # NULL
    THEN << [ context |-> a.readContext, addr |-> a.dmc.currentAddress,
              pre |-> a.dmc, post |-> dmc_fetch_sample(a).dmc ] >>
    ELSE << >>

\* The invocations made during a call of apu_step_cycles_unlocked, first
\* cycle first.
RECURSIVE step_read_calls(_, _)
step_read_calls(a, cycles) ==
    IF cycles <= 0
    THEN << >>
    ELSE CHOOSE r \in { dmc_read_calls(x) \o step_read_calls(dmc_fetch_sample(x), cycles - 1) :
                           x \in {apu_step_cycle_ticks(a)} } : TRUE

FetchSetup(long, loop) ==
    LET b == apu_set_read_callback(apu_init, "read_addr", 1)
        r == apu_cpu_write(b, 16400, IF loop THEN 79 ELSE 15)
        s == apu_cpu_write(r, 16402, IF long THEN 255 ELSE 0)
        l == apu_cpu_write(s, 16403, IF long THEN 4 ELSE 0)
    IN  apu_cpu_write(l, 16405, 16)

FetchInit ==
    /\ \E long \in BOOLEAN : \E loop \in BOOLEAN : apu = FetchSetup(long, loop)
    /\ mutex = NoThread
    /\ pc = [t \in Threads |-> "idle"]
    /\ loc = [t \in Threads |-> NoLocals]
    /\ op = [name |-> "write", args |-> <<16405, 16>>, ret |-> 0]
    /\ taken = 0

FetchStep ==
    /\ Quiet
    /\ Budget(MaxFetchOps)
    /\ apu' = apu_step(apu, FetchCycles)
    /\ op' = [name |-> "step", args |-> <<FetchCycles>>,
              ret |-> step_events(apu, FetchCycles),
              calls |-> step_read_calls(apu, FetchCycles)]
    /\ UNCHANGED <<mutex, pc, loc>>

FetchWriteStatus ==
    /\ taken < MaxFetchWrites
    /\ Budget(MaxFetchOps)
    /\ \E data \in FetchStatusBytes : Write(16405, data)

FetchNext == FetchStep \/ FetchWriteStatus

SpecFetch == FetchInit /\ [][FetchNext]_vars

\* The address after one fetched byte.
NextAddress(addr) == IF addr = 65535 THEN 32768 ELSE addr + 1

\* One invocation c of the callback, bound as read with its context.
FetchEffect(c, read, context) ==
    /\ c.pre.sampleBufferEmpty
    /\ c.pre.bytesRemaining > 0
    /\ c.addr = c.pre.currentAddress
    /\ c.context = context
    /\ ~c.post.sampleBufferEmpty
    /\ c.post.sampleBuffer = ApuReadFunc(read, context, c.addr)
    /\ IF c.pre.bytesRemaining = 1 /\ c.pre.loop
       THEN /\ c.post.currentAddress = c.pre.sampleAddress
            /\ c.post.bytesRemaining = c.pre.sampleLength
       ELSE /\ c.post.currentAddress = NextAddress(c.pre.currentAddress)
            /\ c.post.bytesRemaining = c.pre.bytesRemaining - 1

\* C20: the read callback is invoked only with the read-ahead buffer empty
\* and bytes remaining; an invocation reads at the current address, leaves
\* the buffer full, moves the address on by 1 (0x8000 after 0xFFFF) and
\* takes 1 off bytes-remaining, and at 0 the address and bytes-remaining go
\* back to the sample's start and length exactly when loop is set; the
\* address and bytes-remaining after a step are those the last invocation
\* left (unchanged with no invocation); and while the last write of 0x4015
\* had bit 4 clear a step makes no invocation.
C20_FetchCallback ==
    [][ (op'.name = "step") =>
          LET calls == op'.calls
              n == Len(calls)
          IN  /\ \A i \in 1..n : FetchEffect(calls[i], apu.read, apu.readContext)
              /\ \A i \in 1..(n - 1) :
                    /\ calls[i + 1].pre.currentAddress = calls[i].post.currentAddress
                    /\ calls[i + 1].pre.bytesRemaining = calls[i].post.bytesRemaining
              /\ IF n = 0
                 THEN /\ apu'.dmc.currentAddress = apu.dmc.currentAddress
                      /\ apu'.dmc.bytesRemaining = apu.dmc.bytesRemaining
                 ELSE /\ calls[1].pre.currentAddress = apu.dmc.currentAddress
                      /\ calls[1].pre.bytesRemaining = apu.dmc.bytesRemaining
                      /\ apu'.dmc.currentAddress = calls[n].post.currentAddress
                      /\ apu'.dmc.bytesRemaining = calls[n].post.bytesRemaining
              /\ (~apu.dmc.enabled) => n = 0
      ]_vars

\* C20 witness: the 64th byte of the 65-byte sample has just been read at
\* 0xFFFF; the address is 0x8000, one byte remains and the buffer holds
\* what the callback returned for 0xFFFF.
C20_Witness ==
    /\ op.name = "step"
    /\ Len(op.calls) = 1
    /\ op.calls[1].addr = 65535
    /\ op.calls[1].pre.bytesRemaining = 2
    /\ apu.dmc.currentAddress = 32768
    /\ apu.dmc.bytesRemaining = 1
    /\ apu.dmc.sampleBuffer = 0
    /\ ~apu.dmc.sampleBufferEmpty


(***************************************************************************)
(* SpecAddress: the addresses the DMC reader asks for, from reset.  The    *)
(* host has bound a callback and reset the APU; the emulated CPU then      *)
(* writes the DMC registers in any order, any of them left unwritten, and  *)
(* steps cycle by cycle.  A step's op carries the callback's invocations.  *)
(***************************************************************************)
MaxAddressOps == 5

AddressWrites ==
    { <<16400, 79>>, <<16402, 0>>, <<16402, 255>>, <<16403, 0>>,
      <<16403, 4>>, <<16405, 16>>, <<16405, 0>> }

AddressInit ==
    /\ apu = apu_reset(apu_set_read_callback(apu_init, "read_addr", 1))
    /\ mutex = NoThread
    /\ pc = [t \in Threads |-> "idle"]
    /\ loc = [t \in Threads |-> NoLocals]
    /\ op = [name |-> "reset", args |-> << >>, ret |-> 0]
    /\ taken = 0

AddressWrite ==
    /\ Budget(MaxAddressOps)
    /\ \E w \in AddressWrites : Write(w[1], w[2])

AddressStep ==
    /\ Quiet
    /\ Budget(MaxAddressOps)
    /\ apu' = apu_step(apu, 1)
    /\ op' = [name |-> "step", args |-> <<1>>,
              ret |-> step_events(apu, 1),
              calls |-> step_read_calls(apu, 1)]
    /\ UNCHANGED <<mutex, pc, loc>>

AddressNext == AddressWrite \/ AddressStep

SpecAddress == AddressInit /\ [][AddressNext]_vars

\* C21: from reset, under any register writes and cycle steps, every
\* address passed to the DMC read callback lies in 0x8000..0xFFFF.
C21_AddressInRange ==
    [][ (op'.name = "step") =>
          \A i \in DOMAIN op'.calls : op'.calls[i].addr \in 32768..65535 ]_vars


(***************************************************************************)
(* SpecTriangle: the triangle sequencer.  The emulation has run 0, 3726 or *)
(* 7454 cycles since power-on, so that a quarter-frame or a half-frame     *)
(* event falls among the first steps.  The emulated CPU then steps cycle   *)
(* by cycle and, among its first operations, programs the triangle: linear *)
(* control set or clear, timer period 0 or 1, length 2, enable and         *)
(* disable, and the immediate clock of 0x4017.                             *)
(***************************************************************************)
MaxTriangleOps == 36
MaxTriangleWrites == 5

TriangleStarts == {0, 3726, 7454}

TriangleWrites ==
    { <<16392, 129>>, <<16392, 2>>, <<16394, 1>>, <<16395, 24>>,
      <<16405, 4>>, <<16405, 0>>, <<16407, 128>> }

TriangleInit ==
    /\ \E n \in TriangleStarts : apu = apu_step(apu_init, n)
    /\ mutex = NoThread
    /\ pc = [t \in Threads |-> "idle"]
    /\ loc = [t \in Threads |-> NoLocals]
    /\ op = [name |-> "init", args |-> << >>, ret |-> 0]
    /\ taken = 0

TriangleWrite ==
    /\ taken < MaxTriangleWrites
    /\ Budget(MaxTriangleOps)
    /\ \E w \in TriangleWrites : Write(w[1], w[2])

TriangleStep ==
    /\ Budget(MaxTriangleOps)
    /\ Step(1)

TriangleNext == TriangleWrite \/ TriangleStep

SpecTriangle == TriangleInit /\ [][TriangleNext]_vars

\* The timer tick of a stepped cycle advances the sequence: the countdown
\* is 0 and the length and linear counters, as the tick finds them (after
\* the sequencer events of that cycle, which is how the cycle leaves them),
\* are both nonzero.
TriangleAdvances(before, after) ==
    /\ before.timerCounter = 0
    /\ after.lengthCounter > 0
    /\ after.linearCounter > 0

\* C22: the triangle sequence position is always in 0..31; a stepped cycle
\* whose timer countdown is 0 with the length and linear counters both
\* nonzero advances it by 1 modulo 32, every other cycle leaves it as it
\* is, and so does every register write.
C22_SequencePosition ==
    /\ [](apu.triangle.sequencePos \in 0..31)
    /\ [][ (op'.name = "step") =>
             apu'.triangle.sequencePos =
                IF TriangleAdvances(apu.triangle, apu'.triangle)
                THEN (apu.triangle.sequencePos + 1) % 32
                ELSE apu.triangle.sequencePos ]_vars
    /\ [][ (op'.name = "write") =>
             apu'.triangle.sequencePos = apu.triangle.sequencePos ]_vars

\* C22 witness: with linear control set, period 0, length 2 and the linear
\* counter clocked to 1, the 32nd stepped cycle has taken the position from
\* 31 round to 0.
C22_Witness ==
    /\ op.name = "step"
    /\ taken = 35
    /\ apu.triangle.sequencePos = 0
    /\ apu.triangle.timer = 0
    /\ apu.triangle.lengthCounter = 2
    /\ apu.triangle.linearCounter = 1
    /\ apu.frameCounterCycle = 32

=============================================================================
